---- MODULE Spec2Model ----
(***************************************************************************)
(* Model of the concurrency-control and versioning layer of                *)
(* src/system/catalog/SystemCatalog.cpp: the array lock table              *)
(* (array_version_lock) with lockArray / unlockArray / deleteArrayLocks,   *)
(* the array and array_version tables with addArrayVersion /               *)
(* getLastVersion / getArrayDesc, and the array_dimension bounds with      *)
(* updateArrayBoundaries.                                                  *)
(***************************************************************************)
EXTENDS Integers, FiniteSets, Sequences, Bags, TLC

(***************************************************************************)
(* Bounds of the model.                                                    *)
(***************************************************************************)
NumArrays == 1
NumQueries == 2
NumInstances == 2
MaxVersion == 1
NumWriters == 2
MaxArrayId == 4
SerializedTxnTries == 2
ReconnectTries == 2
NumDims == 2
MaxCoord == 1
MaxFailures == 3
MaxUpdates == 1
MaxNameLen == 2
MaxBatch == 2
NumThreads == 2
MaxCalls == 2

Arrays == 1..NumArrays
Queries == 1..NumQueries
Instances == 1..NumInstances

(***************************************************************************)
(* LockDesc::LockMode and LockDesc::InstanceRole.  The numeric order of    *)
(* the modes is what the lock_mode comparisons of the insert statements    *)
(* rely on.                                                                *)
(***************************************************************************)
INVALID_MODE == 0
RD == 1
WR == 2
CRT == 3
XCL == 4
RM == 5
RNF == 6

INVALID_ROLE == 0
COORD == 1
WORKER == 2

LockModes == {RD, WR, CRT, XCL, RM, RNF}
Roles == {COORD, WORKER}

\* The query id that deleteArrayLocks takes as "no query specified" (no query has it).
INVALID_QUERY_ID == NumQueries + 1

\* The coordinator of a query is one distinguished instance.
CoordinatorOf(q) == q

InstanceRoleOf(q, i) == IF i = CoordinatorOf(q) THEN COORD ELSE WORKER

(***************************************************************************)
(* The values a caller puts into arrayId / arrayVersionId / arrayVersion   *)
(* of a LockDesc: the constructor's zeros, or the ids of version v of the  *)
(* array.                                                                  *)
(***************************************************************************)
LockDescIds ==
    {[arrayId |-> 0, arrayVersionId |-> 0, arrayVersion |-> 0]} \cup
    {[arrayId |-> MaxVersion + 1, arrayVersionId |-> MaxVersion + 1 + v, arrayVersion |-> v] :
        v \in 1..MaxVersion}

\* SystemCatalog::LockDesc::LockDesc
LockDesc(a, q, i, role, mode) ==
    [arrayName |-> a, arrayId |-> 0, queryId |-> q, instanceId |-> i,
     arrayVersionId |-> 0, arrayVersion |-> 0,
     instanceRole |-> role, lockMode |-> mode, isLocked |-> FALSE]

LockKeys == [arrayName : Arrays, queryId : Queries, instanceId : Instances]

KeyOf(r) == [arrayName |-> r.arrayName, queryId |-> r.queryId, instanceId |-> r.instanceId]

\* The errorChecker argument of lockArray: absent, or says continue / abandon.
ErrorCheckers == {"none", "continue", "abandon"}

VARIABLES
    locks,      \* the rows of table array_version_lock
    isLocked,   \* LockDesc::_isLocked of the caller's LockDesc, per lock key
    racer,      \* per query, its coordinator's lockArray transaction in progress
    tableLock,  \* the query whose transaction holds LOCK TABLE array_version_lock, or 0
    scen,       \* the scripted sequence of calls of two coordinators
    arr,        \* the committed rows of table "array"
    ver,        \* the committed rows of table "array_version"
    arrayIdSeq, \* the last value drawn from sequence array_id_seq
    writer,     \* per caller, its addArrayVersion call in progress
    okCalls,    \* per base array name, the addArrayVersion calls that returned normally
    reader,     \* a query reading array descriptors under its catalog horizon
    arrayDimension, \* the committed rows of table "array_dimension", by array and dimension
    bndCall,    \* the call of updateArrayBoundaries in progress
    retry,      \* a catalog call under its retry policies, against a scripted store
    readCall,   \* the call of readArrayLocks in progress
    cur,        \* the call of getCurrentVersion in progress
    updates,    \* the number of updateArrayLock calls made
    thread,     \* per thread of one process, its catalog call in progress
    pgLock,     \* the thread that holds SystemCatalog::_pgLock, or 0
    widen,      \* the updateArrayBoundaries transactions of several instances
    hist,       \* the version ids issued for a base array, and the calls that issue them
    contend     \* the coordinators contending for one array, each retrying when busy

lockVars == <<locks, isLocked>>
raceVars == <<racer, tableLock>>
scenVars == <<scen>>
verVars == <<arr, ver, arrayIdSeq, writer, okCalls, reader>>
bndVars == <<arrayDimension, bndCall>>
retryVars == <<retry>>
readVars == <<readCall>>
curVars == <<cur>>
updVars == <<updates>>
mutexVars == <<thread, pgLock>>
widenVars == <<widen>>
histVars == <<hist>>
contendVars == <<contend>>
vars == <<locks, isLocked, racer, tableLock, scen, arr, ver, arrayIdSeq, writer, okCalls, reader,
          arrayDimension, bndCall, retry, readCall, cur, updates,
          thread, pgLock, widen, hist, contend>>

RaceIdle == racer = <<>> /\ tableLock = 0
ScenIdle == scen = <<>>
LockIdle == locks = {} /\ isLocked = <<>>
BndIdle == arrayDimension = <<>> /\ bndCall = <<>>
RetryIdle == retry = <<>>
ReadIdle == readCall = <<>>
CurIdle == cur = <<>>
UpdIdle == updates = 0
MutexIdle == thread = <<>> /\ pgLock = 0
WidenIdle == widen = <<>>
HistIdle == hist = <<>>
ContendIdle == contend = <<>>
VerIdle ==
    /\ arr = {} /\ ver = {} /\ arrayIdSeq = 0
    /\ writer = <<>> /\ okCalls = <<>> /\ reader = <<>>

\* A row of array_version_lock, with the column values in the statement's order.
LockRow(a, aid, q, i, avid, av, role, mode) ==
    [arrayName |-> a, arrayId |-> aid, queryId |-> q, instanceId |-> i,
     arrayVersionId |-> avid, arrayVersion |-> av,
     instanceRole |-> role, lockMode |-> mode]


\* Mutant of GetLockInsertSql: a worker may request CRT and gets the statement of WR.
GetLockInsertSql_WorkerCrt(desc) ==
    IF desc.lockMode = RD
    THEN IF desc.instanceRole = COORD THEN "COORD-RD" ELSE "INVALID"
    ELSE IF desc.lockMode = WR \/ desc.lockMode = CRT
    THEN IF desc.instanceRole = COORD THEN "COORD-WR"
         ELSE IF desc.instanceRole = WORKER THEN "WORKER-WR" ELSE "INVALID"
    ELSE IF desc.lockMode = RM \/ desc.lockMode = RNF \/ desc.lockMode = XCL
    THEN IF desc.instanceRole = COORD THEN "COORD-XCL"
         ELSE IF desc.instanceRole = WORKER /\ desc.lockMode = XCL THEN "WORKER-XCL"
              ELSE "INVALID"
    ELSE "INVALID"

(***************************************************************************)
(* SystemCatalog::getLockInsertSql: the insert statement for the           *)
(* (mode, role) of the request, or an invalid request.                     *)
(***************************************************************************)
GetLockInsertSql(desc) ==
    IF desc.lockMode = RD
    THEN IF desc.instanceRole = COORD THEN "COORD-RD" ELSE "INVALID"
    ELSE IF desc.lockMode = WR \/ desc.lockMode = CRT
    THEN IF desc.instanceRole = COORD THEN "COORD-WR"
         ELSE IF desc.instanceRole = WORKER
              THEN IF desc.lockMode = CRT THEN "INVALID" ELSE "WORKER-WR"
              ELSE "INVALID"
    ELSE IF desc.lockMode = RM \/ desc.lockMode = RNF \/ desc.lockMode = XCL
    THEN IF desc.instanceRole = COORD THEN "COORD-XCL"
         ELSE IF desc.instanceRole = WORKER /\ desc.lockMode = XCL THEN "WORKER-XCL"
              ELSE "INVALID"
    ELSE "INVALID"

\* Mutant of SqlCoordRd: the conflict test does not compare instance_role.
SqlCoordRd_AnyRole(T, row, p9, p10) ==
    IF \E r \in T : r.arrayName = row.arrayName /\ r.lockMode > p9
    THEN {} ELSE {row}

\* insert ($1..$8) where not exists (array_name=$1 and lock_mode>$9 and instance_role=$10)
SqlCoordRd(T, row, p9, p10) ==
    IF \E r \in T : r.arrayName = row.arrayName /\ r.lockMode > p9 /\ r.instanceRole = p10
    THEN {} ELSE {row}

\* Mutant of SqlCoordWr: the row is inserted unconditionally.
SqlCoordWr_NoConflictTest(T, row, p9) == {row}

\* Mutant of SqlCoordWr: the conflict test looks at coordinator rows only.
SqlCoordWr_CoordRowsOnly(T, row, p9) ==
    IF \E r \in T : /\ r.arrayName = row.arrayName /\ r.queryId # row.queryId
                     /\ r.lockMode > p9 /\ r.instanceRole = COORD
    THEN {} ELSE {row}

\* Mutant of SqlCoordWr: the conflict test does not compare query_id.
SqlCoordWr_AnyQuery(T, row, p9) ==
    IF \E r \in T : r.arrayName = row.arrayName /\ r.lockMode > p9
    THEN {} ELSE {row}

\* insert ($1..$8) where not exists (array_name=$1 and query_id<>$3 and lock_mode>$9)
SqlCoordWr(T, row, p9) ==
    IF \E r \in T : r.arrayName = row.arrayName /\ r.queryId # row.queryId /\ r.lockMode > p9
    THEN {} ELSE {row}

\* Mutant of SqlCoordXcl: rows of mode RD do not count.
SqlCoordXcl_AboveRd(T, row) ==
    IF \E r \in T : r.arrayName = row.arrayName /\ r.queryId # row.queryId /\ r.lockMode > RD
    THEN {} ELSE {row}

\* insert ($1..$8) where not exists (array_name=$1 and query_id<>$3)
SqlCoordXcl(T, row) ==
    IF \E r \in T : r.arrayName = row.arrayName /\ r.queryId # row.queryId
    THEN {} ELSE {row}

\* insert (select AVL.array_name, AVL.array_id, AVL.query_id, $3, AVL.array_version_id,
\*   AVL.array_version, $4, AVL.lock_mode from AVL where array_name=$1 and query_id=$2
\*   and instance_role=1 and (lock_mode=$5 or lock_mode=$6))
SqlWorkerWr(T, p1, p2, p3, p4, p5, p6) ==
    {LockRow(r.arrayName, r.arrayId, r.queryId, p3, r.arrayVersionId, r.arrayVersion,
             p4, r.lockMode) :
        r \in {t \in T : /\ t.arrayName = p1 /\ t.queryId = p2 /\ t.instanceRole = 1
                         /\ (t.lockMode = p5 \/ t.lockMode = p6)}}

\* Mutant of SqlWorkerXcl: the statement has no test for a row of the worker's own key.
SqlWorkerXcl_NoOwnRowTest(T, p1, p2, p3, p4, p5) ==
    {LockRow(r.arrayName, r.arrayId, r.queryId, p3, r.arrayVersionId, r.arrayVersion,
             p4, r.lockMode) :
        r \in {t \in T : /\ t.arrayName = p1 /\ t.queryId = p2 /\ t.instanceRole = 1
                         /\ t.lockMode = p5}}

\* the same copy for lock_mode=$5, and not exists a row of the worker's own key
SqlWorkerXcl(T, p1, p2, p3, p4, p5) ==
    IF \E t \in T : t.arrayName = p1 /\ t.queryId = p2 /\ t.instanceId = p3
    THEN {}
    ELSE {LockRow(r.arrayName, r.arrayId, r.queryId, p3, r.arrayVersionId, r.arrayVersion,
                  p4, r.lockMode) :
            r \in {t \in T : /\ t.arrayName = p1 /\ t.queryId = p2 /\ t.instanceRole = 1
                             /\ t.lockMode = p5}}

\* select array_id, array_version_id, array_version where array_name=$1 and query_id=$2
\*   and instance_id=$3
LockReadSql(T, p1, p2, p3) ==
    {t \in T : t.arrayName = p1 /\ t.queryId = p2 /\ t.instanceId = p3}

\* Mutant of UniqueViolation: the table has no primary key.
UniqueViolation_Never(T, ins) == FALSE

\* The primary key (array_name, query_id, instance_id) of array_version_lock: the
\* insert of rows `ins` into T raises a uniqueness violation.
UniqueViolation(T, ins) ==
    \/ \E r \in ins : \E t \in T : KeyOf(t) = KeyOf(r)
    \/ Cardinality({KeyOf(r) : r \in ins}) < Cardinality(ins)

\* The row a coordinator's statement inserts: the LockDesc's own values.
DescRow(desc) ==
    LockRow(desc.arrayName, desc.arrayId, desc.queryId, desc.instanceId,
            desc.arrayVersionId, desc.arrayVersion, desc.instanceRole, desc.lockMode)

\* The rows the insert statement of _lockArray adds for this request.
LockInsertRows(T, desc) ==
    IF desc.lockMode = RD
    THEN SqlCoordRd(T, DescRow(desc), CRT, COORD)
    ELSE IF desc.lockMode = WR \/ desc.lockMode = CRT
    THEN IF desc.instanceRole = COORD
         THEN SqlCoordWr(T, DescRow(desc), RD)
         ELSE SqlWorkerWr(T, desc.arrayName, desc.queryId, desc.instanceId, WORKER, WR, CRT)
    ELSE IF desc.lockMode = XCL
    THEN IF desc.instanceRole = COORD
         THEN SqlCoordXcl(T, DescRow(desc))
         ELSE SqlWorkerXcl(T, desc.arrayName, desc.queryId, desc.instanceId, WORKER, XCL)
    ELSE IF desc.lockMode = RM
    THEN SqlCoordXcl(T, DescRow(desc))
    ELSE IF desc.instanceRole = COORD
         THEN SqlCoordXcl(T, DescRow(desc))
         ELSE SqlWorkerWr(T, desc.arrayName, desc.queryId, desc.instanceId, WORKER, COORD, RNF)

\* Mutant of FillFromRow: the array version id is not taken from the row.
FillFromRow_KeepVersionId(desc, row) ==
    [desc EXCEPT !.arrayVersion = row.arrayVersion,
                 !.arrayId = row.arrayId]

\* lockDesc->setArrayVersion / setArrayId / setArrayVersionId from the row read back
FillFromRow(desc, row) ==
    [desc EXCEPT !.arrayVersion = row.arrayVersion,
                 !.arrayId = row.arrayId,
                 !.arrayVersionId = row.arrayVersionId]

\* Mutant of OnUniqueViolation: the violation is fatal whatever isLocked says.
OnUniqueViolation_AlwaysFatal(T, desc) ==
    [locks |-> T, desc |-> desc, result |-> "Error", path |-> "unique"]

\* The catch of pqxx::unique_violation in _lockArray: the transaction is rolled back;
\* a coordinator whose LockDesc is already locked gets true, anyone else an error.
\* Mutant of OnUniqueViolation: isLocked is not consulted.
OnUniqueViolation_IgnoreIsLocked(T, desc) ==
    IF desc.instanceRole = COORD
    THEN [locks |-> T, desc |-> desc, result |-> "true", path |-> "reacquire"]
    ELSE [locks |-> T, desc |-> desc, result |-> "Error", path |-> "unique"]

\* Mutant of OnUniqueViolation: the role is not consulted.
OnUniqueViolation_AnyRole(T, desc) ==
    IF ~desc.isLocked
    THEN [locks |-> T, desc |-> desc, result |-> "Error", path |-> "unique"]
    ELSE [locks |-> T, desc |-> desc, result |-> "true", path |-> "reacquire"]

OnUniqueViolation(T, desc) ==
    IF ~desc.isLocked
    THEN [locks |-> T, desc |-> desc, result |-> "Error", path |-> "unique"]
    ELSE IF desc.instanceRole = COORD
         THEN [locks |-> T, desc |-> desc, result |-> "true", path |-> "reacquire"]
         ELSE [locks |-> T, desc |-> desc, result |-> "Error", path |-> "unique"]

\* Mutant of ErrorCheckerStops: the errorChecker is not consulted.
ErrorCheckerStops_Never(checker) == FALSE

\* if (errorChecker && !errorChecker()) return false;
ErrorCheckerStops(checker) == checker # "none" /\ checker = "abandon"

(***************************************************************************)
(* SystemCatalog::_lockArray on lock table T: the table after the call,    *)
(* the LockDesc after the call, what the call returns or raises, and the   *)
(* return statement it left by.  The transaction takes LOCK TABLE first,   *)
(* so it runs alone on the table.                                          *)
(***************************************************************************)
LockArrayOutcome(T, desc, checker) ==
    LET ins == LockInsertRows(T, desc)
        T1 == T \cup ins
        own == LockReadSql(T1, desc.arrayName, desc.queryId, desc.instanceId)
        isWorkerXcl == desc.lockMode = XCL /\ desc.instanceRole = WORKER
        isWorkerWr == (desc.lockMode = WR \/ desc.lockMode = CRT) /\ desc.instanceRole = WORKER
        affectedRows == IF isWorkerXcl THEN Cardinality(own) ELSE Cardinality(ins)
        readBack == \/ isWorkerXcl /\ Cardinality(own) = 1
                    \/ isWorkerWr /\ Cardinality(ins) = 1
        desc1 == IF readBack THEN FillFromRow(desc, CHOOSE r \in own : TRUE) ELSE desc
    IN  IF GetLockInsertSql(desc) = "INVALID"
        THEN [locks |-> T, desc |-> desc, result |-> "InvalidRequest", path |-> "throw"]
        ELSE IF UniqueViolation(T, ins)
        THEN OnUniqueViolation(T, desc)
        ELSE IF affectedRows = 1
        THEN [locks |-> T1, desc |-> [desc1 EXCEPT !.isLocked = TRUE],
              result |-> "true", path |-> "locked"]
        ELSE IF desc.instanceRole = WORKER
        THEN [locks |-> T1, desc |-> desc1, result |-> "false", path |-> "worker"]
        ELSE IF ErrorCheckerStops(checker)
        THEN [locks |-> T1, desc |-> desc1, result |-> "false", path |-> "checker"]
        ELSE [locks |-> T1, desc |-> desc1, result |-> "LockBusy", path |-> "throw"]

\* The LockDesc a caller passes for key k: its role follows from the instance, its
\* mode and ids are the caller's, isLocked is what earlier calls left in it.
CallerDesc(k, mode, ids) ==
    [LockDesc(k.arrayName, k.queryId, k.instanceId,
              InstanceRoleOf(k.queryId, k.instanceId), mode)
        EXCEPT !.arrayId = ids.arrayId,
               !.arrayVersionId = ids.arrayVersionId,
               !.arrayVersion = ids.arrayVersion,
               !.isLocked = isLocked[k]]

LockInit ==
    /\ locks = {}
    /\ isLocked = [k \in LockKeys |-> FALSE]

\* SystemCatalog::lockArray
LockArray(k, mode, ids, checker) ==
    LET desc == CallerDesc(k, mode, ids)
        out == LockArrayOutcome(locks, desc, checker)
    IN  /\ locks' = out.locks
        /\ isLocked' = [isLocked EXCEPT ![k] = out.desc.isLocked]

\* Mutant of UnlockDeleteSql: the statement does not compare instance_id.
UnlockDeleteSql_AnyInstance(T, p1, p2, p3) ==
    {t \in T : ~(t.arrayName = p1 /\ t.queryId = p2)}

\* Mutant of UnlockDeleteSql: the statement deletes nothing.
UnlockDeleteSql_KeepsRow(T, p1, p2, p3) == T

\* delete from array_version_lock where array_name=$1 and query_id=$2 and instance_id=$3
UnlockDeleteSql(T, p1, p2, p3) ==
    {t \in T : ~(t.arrayName = p1 /\ t.queryId = p2 /\ t.instanceId = p3)}

\* SystemCatalog::unlockArray
UnlockArrayOutcome(T, desc) ==
    LET T1 == UnlockDeleteSql(T, desc.arrayName, desc.queryId, desc.instanceId)
    IN  [locks |-> T1, result |-> (Cardinality(T) - Cardinality(T1) = 1)]

UnlockArray(k) ==
    /\ locks' = UnlockArrayOutcome(locks, LockDesc(k.arrayName, k.queryId, k.instanceId,
                     InstanceRoleOf(k.queryId, k.instanceId), INVALID_MODE)).locks
    /\ UNCHANGED isLocked

\* Mutant of DeleteLocksSql: the role is never taken as specified.
DeleteLocksSql_IgnoreRole(T, instanceId, queryId, role) ==
    LET isQuerySpecified == queryId # INVALID_QUERY_ID /\ queryId # 0
    IN  {t \in T : ~(/\ t.instanceId = instanceId
                     /\ (isQuerySpecified => t.queryId = queryId))}

\* delete from array_version_lock where instance_id=$1 [and query_id=$2] [and instance_role=$3]
DeleteLocksSql(T, instanceId, queryId, role) ==
    LET isQuerySpecified == queryId # INVALID_QUERY_ID /\ queryId # 0
        isRoleSpecified == role # INVALID_ROLE
    IN  {t \in T : ~(/\ t.instanceId = instanceId
                     /\ (isQuerySpecified => t.queryId = queryId)
                     /\ (isRoleSpecified => t.instanceRole = role))}

\* SystemCatalog::deleteArrayLocks
DeleteArrayLocksOutcome(T, i, q, role) ==
    LET T1 == DeleteLocksSql(T, i, q, role)
    IN  [locks |-> T1, result |-> Cardinality(T) - Cardinality(T1)]

DeleteArrayLocks(i, q, role) ==
    /\ locks' = DeleteArrayLocksOutcome(locks, i, q, role).locks
    /\ UNCHANGED isLocked

\* A caller builds a new LockDesc for key k (the constructor leaves isLocked false).
NewLockDesc(k) ==
    /\ isLocked[k]
    /\ isLocked' = [isLocked EXCEPT ![k] = LockDesc(k.arrayName, k.queryId, k.instanceId,
                                                     INVALID_ROLE, INVALID_MODE).isLocked]
    /\ UNCHANGED locks

lockRest == <<raceVars, scenVars, verVars, bndVars, retryVars, readVars, curVars, updVars, mutexVars, widenVars, histVars, contendVars>>
LockNext ==
    \/ \E k \in LockKeys, mode \in LockModes, ids \in LockDescIds, c \in ErrorCheckers :
          LockArray(k, mode, ids, c) /\ UNCHANGED lockRest
    \/ \E k \in LockKeys : UnlockArray(k) /\ UNCHANGED lockRest
    \/ \E i \in Instances, q \in Queries \cup {0, INVALID_QUERY_ID},
          role \in Roles \cup {INVALID_ROLE} :
             DeleteArrayLocks(i, q, role) /\ UNCHANGED lockRest
    \/ \E k \in LockKeys : NewLockDesc(k) /\ UNCHANGED lockRest

SpecLockInit ==
    /\ LockInit /\ RaceIdle /\ ScenIdle /\ VerIdle /\ BndIdle
    /\ RetryIdle /\ ReadIdle /\ CurIdle /\ UpdIdle /\ MutexIdle /\ WidenIdle /\ HistIdle /\ ContendIdle
SpecLock == SpecLockInit /\ [][LockNext]_vars

(***************************************************************************)
(* The transaction of _lockArray step by step, for the coordinators of     *)
(* all queries requesting a write-mode lock on one array at once: LOCK     *)
(* TABLE, the insert statement, the commit.  The transaction is a          *)
(* pqxx::work; its statements see the committed rows.                      *)
(***************************************************************************)
\* Mutant of TableLockFree: the transaction does not take the table lock.
TableLockFree_NoLockTable(holder) == TRUE

\* LOCK TABLE array_version_lock waits until no other transaction holds it.
TableLockFree(holder) == holder = 0

RaceModes == {WR, CRT, XCL, RM}

RaceInit ==
    /\ locks = {}
    /\ isLocked = [k \in LockKeys |-> FALSE]
    /\ tableLock = 0
    /\ \E a \in Arrays :
          racer \in [Queries ->
              {[pc |-> "start", checker |-> c, pending |-> {}, result |-> "none",
                desc |-> LockDesc(a, q, CoordinatorOf(q), COORD, mode)] :
                  c \in ErrorCheckers, mode \in RaceModes, q \in Queries}]
    /\ \A q \in Queries : racer[q].desc.queryId = q

\* tr.prepared(lockTableSql).exec()
RaceLockTable(q) ==
    /\ racer[q].pc = "start"
    /\ TableLockFree(tableLock)
    /\ tableLock' = q
    /\ racer' = [racer EXCEPT ![q].pc = "locked"]
    /\ UNCHANGED lockVars

\* the insert statement and what _lockArray makes of its affected rows
RaceInsert(q) ==
    /\ racer[q].pc = "locked"
    /\ LET out == LockArrayOutcome(locks, racer[q].desc, racer[q].checker)
       IN  racer' = [racer EXCEPT ![q].pc = "inserted",
                                  ![q].pending = out.locks \ locks,
                                  ![q].desc = out.desc,
                                  ![q].result = out.result]
    /\ UNCHANGED <<lockVars, tableLock>>

\* tr.commit(), or the rollback when the call leaves by an exception
RaceCommit(q) ==
    /\ racer[q].pc = "inserted"
    /\ locks' = locks \cup racer[q].pending
    /\ isLocked' = [isLocked EXCEPT ![KeyOf(racer[q].desc)] = racer[q].desc.isLocked]
    /\ tableLock' = IF tableLock = q THEN 0 ELSE tableLock
    /\ racer' = [racer EXCEPT ![q].pc = "done", ![q].pending = {}]

raceRest == <<scenVars, verVars, bndVars, retryVars, readVars, curVars, updVars, mutexVars, widenVars, histVars, contendVars>>
RaceNext ==
    \/ \E q \in Queries : RaceLockTable(q) /\ UNCHANGED raceRest
    \/ \E q \in Queries : RaceInsert(q) /\ UNCHANGED raceRest
    \/ \E q \in Queries : RaceCommit(q) /\ UNCHANGED raceRest

SpecRaceInit ==
    /\ RaceInit /\ ScenIdle /\ VerIdle /\ BndIdle
    /\ RetryIdle /\ ReadIdle /\ CurIdle /\ UpdIdle /\ MutexIdle /\ WidenIdle /\ HistIdle /\ ContendIdle
SpecRace == SpecRaceInit /\ [][RaceNext]_vars


(***************************************************************************)
(* Two coordinators in sequence: query q1 takes CRT on an array, query q2  *)
(* asks for WR, q1 releases, q2 asks again.                                *)
(***************************************************************************)
ScenKey(q, a) == [arrayName |-> a, queryId |-> q, instanceId |-> CoordinatorOf(q)]

ScenInit ==
    /\ locks = {}
    /\ isLocked = [k \in LockKeys |-> FALSE]
    /\ \E a \in Arrays, q1 \in Queries, q2 \in Queries,
          ids1 \in LockDescIds, ids2 \in LockDescIds, c \in ErrorCheckers :
          /\ q1 # q2
          /\ scen = [step |-> 0, a |-> a, q1 |-> q1, q2 |-> q2,
                     ids1 |-> ids1, ids2 |-> ids2, checker |-> c, res |-> <<>>]

ScenLockResult(q, mode, ids, c) ==
    LockArrayOutcome(locks, CallerDesc(ScenKey(q, scen.a), mode, ids), c).result

ScenAcquireCrt ==
    /\ scen.step = 0
    /\ LockArray(ScenKey(scen.q1, scen.a), CRT, scen.ids1, "none")
    /\ scen' = [scen EXCEPT !.step = 1,
                            !.res = Append(@, ScenLockResult(scen.q1, CRT, scen.ids1, "none"))]

ScenRequestWr ==
    /\ scen.step = 1
    /\ LockArray(ScenKey(scen.q2, scen.a), WR, scen.ids2, scen.checker)
    /\ scen' = [scen EXCEPT !.step = 2,
                            !.res = Append(@, ScenLockResult(scen.q2, WR, scen.ids2, scen.checker))]

ScenRelease ==
    /\ scen.step = 2
    /\ UnlockArray(ScenKey(scen.q1, scen.a))
    /\ scen' = [scen EXCEPT !.step = 3,
                            !.res = Append(@, IF UnlockArrayOutcome(locks,
                                LockDesc(scen.a, scen.q1, CoordinatorOf(scen.q1),
                                         COORD, CRT)).result THEN "true" ELSE "false")]

ScenRetryWr ==
    /\ scen.step = 3
    /\ LockArray(ScenKey(scen.q2, scen.a), WR, scen.ids2, scen.checker)
    /\ scen' = [scen EXCEPT !.step = 4,
                            !.res = Append(@, ScenLockResult(scen.q2, WR, scen.ids2, scen.checker))]

scenRest == <<raceVars, verVars, bndVars, retryVars, readVars, curVars, updVars, mutexVars, widenVars, histVars, contendVars>>
ScenNext ==
    \/ ScenAcquireCrt /\ UNCHANGED scenRest
    \/ ScenRequestWr /\ UNCHANGED scenRest
    \/ ScenRelease /\ UNCHANGED scenRest
    \/ ScenRetryWr /\ UNCHANGED scenRest

SpecScenarioInit ==
    /\ ScenInit /\ RaceIdle /\ VerIdle /\ BndIdle
    /\ RetryIdle /\ ReadIdle /\ CurIdle /\ UpdIdle /\ MutexIdle /\ WidenIdle /\ HistIdle /\ ContendIdle
SpecScenario == SpecScenarioInit /\ [][ScenNext]_vars

(***************************************************************************)
(* The version catalog: tables "array" and "array_version", the sequence   *)
(* array_id_seq, and the callers of getNextArrayId / addArrayVersion.      *)
(* An array name is the base name with the version of "base@version", or   *)
(* version 0 for the unversioned name.                                     *)
(***************************************************************************)
Writers == 1..NumWriters
ArrayIds == 1..MaxArrayId
DescVersions == 1..NumWriters
LAST_VERSION == 0 - 1

ArrayName(b, v) == [base |-> b, vid |-> v]
isNameVersioned(name) == name.vid > 0
isNameUnversioned(name) == name.vid = 0
getVersionFromName(name) == name.vid
makeUnversionedName(name) == ArrayName(name.base, 0)

ArrayRow(id, name) == [id |-> id, name |-> name]
VersionRow(array_id, version_array_id, version_id) ==
    [array_id |-> array_id, version_array_id |-> version_array_id,
     version_id |-> version_id]
ArrayDesc(id, uaid, name, vid) == [id |-> id, uaid |-> uaid, name |-> name, vid |-> vid]

MaxOf(S) == CHOOSE m \in S : \A x \in S : x <= m

(* Query::runRestartableWork: the work runs at most maxTries times. *)
RunRestartableWork(tries, maxTries) ==
    IF tries < maxTries THEN "retry" ELSE "exhausted"

(* Table "array": id is the primary key, name is unique. *)
ArrayUniqueViolation(visible, rows) ==
    \/ \E r \in rows, s \in visible : r.id = s.id \/ r.name = s.name
    \/ \E r \in rows, s \in rows : r # s /\ (r.id = s.id \/ r.name = s.name)

(* The ASSERT_EXCEPTIONs of _addArray on the descriptor. *)
AddArrayValid(desc) ==
    /\ desc.id > 0
    /\ \/ isNameUnversioned(desc.name) /\ desc.uaid = desc.id
       \/ /\ desc.vid = getVersionFromName(desc.name)
          /\ desc.uaid > 0
          /\ desc.uaid < desc.id

(* _addArray: the row inserted into "array". *)
AddArraySql(desc) == ArrayRow(desc.id, desc.name)

(* _createNewVersion: COALESCE(max(version_id),0)+1 over the visible rows  *)
(* of the base array, and the row inserted into "array_version".           *)
VersionsOf(v, array_id) == {r \in v : r.array_id = array_id}
NextVersionId(v, array_id) ==
    MaxOf({r.version_id : r \in VersionsOf(v, array_id)} \cup {0}) + 1
CreateNewVersionSql(v, array_id, version_array_id) ==
    VersionRow(array_id, version_array_id, NextVersionId(v, array_id))

(* The descriptors a call of addArrayVersion is given. *)
UnversionedDesc(wr) == ArrayDesc(wr.uaid, wr.uaid, ArrayName(wr.base, 0), 0)
VersionedDesc(wr) == ArrayDesc(wr.id, wr.uaid, ArrayName(wr.base, wr.vid), wr.vid)
WriterDescs(wr) ==
    (IF wr.withBase THEN {UnversionedDesc(wr)} ELSE {}) \cup {VersionedDesc(wr)}
PendingArrayRows(wr) == {AddArraySql(d) : d \in WriterDescs(wr)}

(* pqxx::transaction<pqxx::serializable>: the commit fails with "could not *)
(* serialize access" when rows matching what the transaction read were     *)
(* committed after its snapshot.                                           *)
SerializationConflict_ReadCommitted(snap, current) == FALSE
SerializationConflict(snap, current) == snap # current

(* tr.commit(): every row the transaction wrote becomes visible at once. *)
TxnCommitTables_ArrayRowOnly(a, v, pa, pv) == [arr |-> a \cup pa, ver |-> v]
TxnCommitTables(a, v, pa, pv) == [arr |-> a \cup pa, ver |-> v \cup pv]

WriterIdle(res) ==
    [pc |-> "idle", ids |-> <<>>, base |-> 0, vid |-> 0, uaid |-> 0, id |-> 0,
     withBase |-> FALSE, snap |-> {}, newVid |-> 0,
     serTries |-> 0, connTries |-> 0, result |-> res]
WriterDone(wr, res) ==
    [WriterIdle(res) EXCEPT !.serTries = wr.serTries, !.connTries = wr.connTries]
ReaderIdle ==
    [pc |-> "idle", base |-> 0, H |-> 0, version |-> 0, throwException |-> FALSE,
     id |-> 0, lastVer |-> 0, result |-> "none"]

VerInit ==
    /\ arr = {} /\ ver = {} /\ arrayIdSeq = 0
    /\ writer = [w \in Writers |-> WriterIdle("none")]
    /\ okCalls = [b \in Arrays |-> 0]
    /\ reader = ReaderIdle

(* getNextArrayId: nextval('array_id_seq') in a transaction of its own. *)
GetNextArrayId(w) ==
    /\ writer[w].pc = "idle"
    /\ Len(writer[w].ids) < 2
    /\ arrayIdSeq < MaxArrayId
    /\ arrayIdSeq' = arrayIdSeq + 1
    /\ writer' = [writer EXCEPT ![w] = [WriterIdle("none") EXCEPT
                                            !.ids = Append(writer[w].ids, arrayIdSeq + 1)]]
    /\ UNCHANGED <<arr, ver, okCalls, reader>>

(* addArray: the row of an unversioned array, in a transaction of its own. *)
AddArray(w, b) ==
    /\ writer[w].pc = "idle"
    /\ Len(writer[w].ids) = 1
    /\ LET desc == ArrayDesc(writer[w].ids[1], writer[w].ids[1], ArrayName(b, 0), 0)
       IN  IF ~AddArrayValid(desc) \/ ArrayUniqueViolation(arr, {AddArraySql(desc)})
           THEN /\ arr' = arr
                /\ writer' = [writer EXCEPT ![w] = WriterIdle("error")]
           ELSE /\ arr' = arr \cup {AddArraySql(desc)}
                /\ writer' = [writer EXCEPT ![w] = WriterIdle("ok")]
    /\ UNCHANGED <<ver, arrayIdSeq, okCalls, reader>>

(* addArrayVersion is called: with two ids drawn the caller passes an      *)
(* unversioned descriptor as well, with one it names the existing base.    *)
AddArrayVersion(w, b, v) ==
    /\ writer[w].pc = "idle"
    /\ Len(writer[w].ids) >= 1
    /\ \/ /\ Len(writer[w].ids) = 2
          /\ writer' = [writer EXCEPT ![w].pc = "ready", ![w].base = b, ![w].vid = v,
                            ![w].withBase = TRUE,
                            ![w].uaid = writer[w].ids[1], ![w].id = writer[w].ids[2],
                            ![w].serTries = 1, ![w].connTries = 1]
       \/ /\ Len(writer[w].ids) = 1
          /\ \E r \in arr :
                /\ r.name = ArrayName(b, 0)
                /\ writer' = [writer EXCEPT ![w].pc = "ready", ![w].base = b, ![w].vid = v,
                            ![w].withBase = FALSE,
                            ![w].uaid = r.id, ![w].id = writer[w].ids[1],
                            ![w].serTries = 1, ![w].connTries = 1]
    /\ UNCHANGED <<arr, ver, arrayIdSeq, okCalls, reader>>

(* _addArrayVersion up to tr.commit(): the statements run on the snapshot  *)
(* of the transaction; an assertion or a uniqueness violation ends the     *)
(* call with an error and the transaction is rolled back.                  *)
TxnExec(w) ==
    /\ writer[w].pc = "ready"
    /\ IF \/ \E d \in WriterDescs(writer[w]) : ~AddArrayValid(d)
          \/ ArrayUniqueViolation(arr, PendingArrayRows(writer[w]))
       THEN writer' = [writer EXCEPT ![w] = WriterDone(writer[w], "error")]
       ELSE writer' = [writer EXCEPT ![w].pc = "executed",
                            ![w].snap = VersionsOf(ver, writer[w].uaid),
                            ![w].newVid = NextVersionId(ver, writer[w].uaid)]
    /\ UNCHANGED <<arr, ver, arrayIdSeq, okCalls, reader>>

(* tr.commit() succeeds. *)
TxnCommit(w) ==
    /\ writer[w].pc = "executed"
    /\ ~SerializationConflict(writer[w].snap, VersionsOf(ver, writer[w].uaid))
    /\ ~ArrayUniqueViolation(arr, PendingArrayRows(writer[w]))
    /\ LET out == TxnCommitTables(arr, ver, PendingArrayRows(writer[w]),
                     {VersionRow(writer[w].uaid, writer[w].id, writer[w].newVid)})
       IN  /\ arr' = out.arr
           /\ ver' = out.ver
    /\ okCalls' = [okCalls EXCEPT ![writer[w].base] = @ + 1]
    /\ writer' = [writer EXCEPT ![w] = WriterDone(writer[w], "ok")]
    /\ UNCHANGED <<arrayIdSeq, reader>>

(* The store reports a serialization conflict: throwOnSerializationConflict *)
(* raises TxnIsolationConflict and the inner retry policy runs the work     *)
(* again while tries remain.                                                *)
TxnConflict(w) ==
    /\ writer[w].pc = "executed"
    /\ SerializationConflict(writer[w].snap, VersionsOf(ver, writer[w].uaid))
    /\ IF RunRestartableWork(writer[w].serTries, SerializedTxnTries) = "retry"
       THEN writer' = [writer EXCEPT ![w].pc = "ready", ![w].serTries = @ + 1,
                            ![w].snap = {}, ![w].newVid = 0]
       ELSE writer' = [writer EXCEPT ![w] = WriterDone(writer[w], "conflict")]
    /\ UNCHANGED <<arr, ver, arrayIdSeq, okCalls, reader>>

(* A row committed since the snapshot has the id or the name of a row this *)
(* transaction inserts: a store error, not retried.                        *)
TxnStoreError(w) ==
    /\ writer[w].pc = "executed"
    /\ ArrayUniqueViolation(arr, PendingArrayRows(writer[w]))
    /\ writer' = [writer EXCEPT ![w] = WriterDone(writer[w], "error")]
    /\ UNCHANGED <<arr, ver, arrayIdSeq, okCalls, reader>>

(* broken_connection inside the transaction: it is rolled back and the     *)
(* outer retry policy starts the inner one again while tries remain.       *)
ConnectionLost(w) ==
    /\ writer[w].pc \in {"ready", "executed"}
    /\ IF RunRestartableWork(writer[w].connTries, ReconnectTries) = "retry"
       THEN writer' = [writer EXCEPT ![w].pc = "ready", ![w].connTries = @ + 1,
                            ![w].serTries = 1, ![w].snap = {}, ![w].newVid = 0]
       ELSE writer' = [writer EXCEPT ![w] = WriterDone(writer[w], "connection")]
    /\ UNCHANGED <<arr, ver, arrayIdSeq, okCalls, reader>>

(***************************************************************************)
(* Reads under a catalog horizon.                                          *)
(***************************************************************************)
(* getArrayInfo: select ... where name = $1 and id <= $2. *)
GetArrayInfo_NoHorizon(a, name, catalogVersion) ==
    LET res == {r \in a : r.name = name}
    IN  IF res = {} THEN [found |-> FALSE, id |-> 0]
        ELSE [found |-> TRUE, id |-> (CHOOSE r \in res : TRUE).id]
GetArrayInfo(a, name, catalogVersion) ==
    LET res == {r \in a : r.name = name /\ r.id <= catalogVersion}
    IN  IF res = {} THEN [found |-> FALSE, id |-> 0]
        ELSE [found |-> TRUE, id |-> (CHOOSE r \in res : TRUE).id]

(* fillArrayIdentifiers: the base array of a versioned name is looked up   *)
(* by name alone.                                                          *)
FillArrayIdentifiers(a, name, arrId) ==
    IF isNameVersioned(name)
    THEN LET res == {r \in a : r.name = makeUnversionedName(name)}
         IN  IF res = {} THEN [found |-> FALSE, uaid |-> 0, vid |-> 0]
             ELSE [found |-> TRUE, uaid |-> (CHOOSE r \in res : TRUE).id,
                   vid |-> getVersionFromName(name)]
    ELSE [found |-> TRUE, uaid |-> arrId, vid |-> 0]

(* _getArrayDesc in its transaction: the identifiers of the descriptor, or *)
(* ARRAY_DOESNT_EXIST.                                                     *)
GetArrayDescTxn(a, name, catalogVersion) ==
    LET info == GetArrayInfo(a, name, catalogVersion)
        ids  == FillArrayIdentifiers(a, name, info.id)
    IN  IF info.found /\ ids.found
        THEN [found |-> TRUE, id |-> info.id, uaid |-> ids.uaid, vid |-> ids.vid]
        ELSE [found |-> FALSE, id |-> 0, uaid |-> 0, vid |-> 0]

\* Mutant of GetLastVersion: the statement does not compare version_array_id.
GetLastVersion_NoHorizon(v, array_id, catalogVersion) ==
    MaxOf({r.version_id : r \in {x \in v : x.array_id = array_id}} \cup {0})

(* _getLastVersion: COALESCE(max(version_id),0) where array_id = $1 and    *)
(* version_array_id <= $2.                                                 *)
GetLastVersion(v, array_id, catalogVersion) ==
    MaxOf({r.version_id : r \in {x \in v : /\ x.array_id = array_id
                                           /\ x.version_array_id <= catalogVersion}}
          \cup {0})

(* _getCurrentVersion for one lock: max(id) over the rows named base or   *)
(* base@..., or the 0 the LockDesc starts with when there is none.         *)
GetCurrentVersion(a, b) ==
    MaxOf({r.id : r \in {x \in a : x.name.base = b}} \cup {0})

(* getArrayDesc(name, catalogVersion, array_desc, throwException). *)
NotFound(throwException) == IF throwException THEN "ArrayDoesntExist" ELSE "false"

(* A query starts: its horizon for the array is read by getCurrentVersion. *)
QueryStart(b) ==
    /\ reader.pc = "idle"
    /\ reader' = [ReaderIdle EXCEPT !.pc = "started", !.base = b,
                                    !.H = GetCurrentVersion(arr, b)]
    /\ UNCHANGED <<arr, ver, arrayIdSeq, writer, okCalls>>

(* getArrayDesc(name, catalogVersion, version, ...): with an explicit      *)
(* version one lookup of "name@version"; with LAST_VERSION the lookup of   *)
(* the base name, the first of three transactions.                         *)
GetArrayDesc(version, throwException) ==
    /\ reader.pc \in {"started", "done"}
    /\ LET name == IF version # LAST_VERSION THEN ArrayName(reader.base, version)
                   ELSE ArrayName(reader.base, 0)
           d == GetArrayDescTxn(arr, name, reader.H)
       IN  reader' = [reader EXCEPT
              !.version = version, !.throwException = throwException,
              !.lastVer = 0,
              !.id = d.id,
              !.pc = IF version = LAST_VERSION /\ d.found THEN "gotBase" ELSE "done",
              !.result = IF ~d.found THEN NotFound(throwException)
                         ELSE IF version = LAST_VERSION THEN "none" ELSE "desc"]
    /\ UNCHANGED <<arr, ver, arrayIdSeq, writer, okCalls>>

(* version = getLastVersion(array_desc.getId(), catalogVersion). *)
GetArrayDescLastVersion ==
    /\ reader.pc = "gotBase"
    /\ LET lv == GetLastVersion(ver, reader.id, reader.H)
       IN  reader' = [reader EXCEPT
              !.lastVer = lv,
              !.pc = IF lv = 0 THEN "done" ELSE "gotLast",
              !.result = IF lv = 0 THEN "desc" ELSE "none"]
    /\ UNCHANGED <<arr, ver, arrayIdSeq, writer, okCalls>>

(* The lookup of "name@version" for the version found. *)
GetArrayDescOfLast ==
    /\ reader.pc = "gotLast"
    /\ LET d == GetArrayDescTxn(arr, ArrayName(reader.base, reader.lastVer), reader.H)
       IN  reader' = [reader EXCEPT
              !.id = d.id,
              !.pc = "done",
              !.result = IF d.found THEN "desc" ELSE NotFound(reader.throwException)]
    /\ UNCHANGED <<arr, ver, arrayIdSeq, writer, okCalls>>

QueryEnd ==
    /\ reader.pc = "done"
    /\ reader' = ReaderIdle
    /\ UNCHANGED <<arr, ver, arrayIdSeq, writer, okCalls>>

verRest == <<lockVars, raceVars, scenVars, bndVars, retryVars, readVars, curVars, updVars, mutexVars, widenVars, histVars, contendVars>>
VerNext ==
    \/ \E w \in Writers : GetNextArrayId(w) /\ UNCHANGED verRest
    \/ \E w \in Writers, b \in Arrays : AddArray(w, b) /\ UNCHANGED verRest
    \/ \E w \in Writers, b \in Arrays, v \in DescVersions :
          AddArrayVersion(w, b, v) /\ UNCHANGED verRest
    \/ \E w \in Writers : TxnExec(w) /\ UNCHANGED verRest
    \/ \E w \in Writers : TxnCommit(w) /\ UNCHANGED verRest
    \/ \E w \in Writers : TxnConflict(w) /\ UNCHANGED verRest
    \/ \E w \in Writers : TxnStoreError(w) /\ UNCHANGED verRest
    \/ \E w \in Writers : ConnectionLost(w) /\ UNCHANGED verRest
    \/ \E b \in Arrays : QueryStart(b) /\ UNCHANGED verRest
    \/ \E version \in DescVersions \cup {LAST_VERSION}, t \in BOOLEAN :
          GetArrayDesc(version, t) /\ UNCHANGED verRest
    \/ GetArrayDescLastVersion /\ UNCHANGED verRest
    \/ GetArrayDescOfLast /\ UNCHANGED verRest
    \/ QueryEnd /\ UNCHANGED verRest

SpecVerInit ==
    /\ VerInit /\ LockIdle /\ RaceIdle /\ ScenIdle /\ BndIdle
    /\ RetryIdle /\ ReadIdle /\ CurIdle /\ UpdIdle /\ MutexIdle /\ WidenIdle /\ HistIdle /\ ContendIdle
SpecVer == SpecVerInit /\ [][VerNext]_vars

(***************************************************************************)
(* Table "array_dimension" and updateArrayBoundaries.  A row carries the   *)
(* declared range startMin..endMax of the dimension and the current        *)
(* bounds currStart / currEnd as _addArray inserted them from the          *)
(* descriptor.                                                             *)
(***************************************************************************)
Dims == 0..(NumDims - 1)
Coords == (0 - MaxCoord)..MaxCoord
DimensionRow(startMin, currStart, currEnd, endMax) ==
    [startMin |-> startMin, currStart |-> currStart,
     currEnd |-> currEnd, endMax |-> endMax]
DimensionRows ==
    {r \in [startMin : Coords, currStart : Coords, currEnd : Coords, endMax : Coords] :
        r.startMin <= r.endMax}
PhysicalBoundaries == [low : [Dims -> Coords], high : [Dims -> Coords]]

MaxCoordinate(x, y) == IF x >= y THEN x ELSE y
MinCoordinate(x, y) == IF x <= y THEN x ELSE y

(* PhysicalBoundaries::trimToDims: the bounds cut to the declared range of *)
(* each dimension of the descriptor.                                       *)
TrimToDims(bounds, dimensions) ==
    [low  |-> [i \in Dims |-> MaxCoordinate(dimensions[i].startMin, bounds.low[i])],
     high |-> [i \in Dims |-> MinCoordinate(dimensions[i].endMax, bounds.high[i])]]

(* update array_dimension set currStart=$1 where ... and currStart>$1 *)
UpdateLowBoundary_Unconditional(row, p1) == [row EXCEPT !.currStart = p1]
UpdateLowBoundary(row, p1) ==
    IF row.currStart > p1 THEN [row EXCEPT !.currStart = p1] ELSE row

UpdateHighBoundary_Unconditional(row, p1) == [row EXCEPT !.currEnd = p1]
(* update array_dimension set currEnd=$1 where ... and currEnd<$1 *)
UpdateHighBoundary(row, p1) ==
    IF row.currEnd < p1 THEN [row EXCEPT !.currEnd = p1] ELSE row

(* _updateArrayBoundaries: the table after the transaction; the statements *)
(* of dimension i match the row (array_id, i) only.                        *)
UpdateArrayBoundariesOutcome(T, array_id, bounds) ==
    IF array_id \notin DOMAIN T THEN T
    ELSE LET trimmed == TrimToDims(bounds, T[array_id])
         IN  [T EXCEPT ![array_id] =
                 [i \in Dims |-> UpdateHighBoundary(
                                    UpdateLowBoundary(T[array_id][i], trimmed.low[i]),
                                    trimmed.high[i])]]

BndInit ==
    /\ arrayDimension \in [Arrays -> [Dims -> DimensionRows]]
    /\ bndCall = [pc |-> "idle"]

(* updateArrayBoundaries(desc, bounds) is called. *)
UpdateArrayBoundaries(a, bounds) ==
    /\ bndCall.pc = "idle"
    /\ bndCall' = [pc |-> "called", array_id |-> a, bounds |-> bounds]
    /\ UNCHANGED arrayDimension

(* The transaction of _updateArrayBoundaries commits. *)
UpdateArrayBoundariesCommit ==
    /\ bndCall.pc = "called"
    /\ arrayDimension' =
          UpdateArrayBoundariesOutcome(arrayDimension, bndCall.array_id, bndCall.bounds)
    /\ bndCall' = [pc |-> "done", array_id |-> bndCall.array_id,
                   bounds |-> bndCall.bounds, stored |-> arrayDimension]

UpdateArrayBoundariesReturn ==
    /\ bndCall.pc = "done"
    /\ bndCall' = [pc |-> "idle"]
    /\ UNCHANGED arrayDimension

bndRest == <<lockVars, raceVars, scenVars, verVars, retryVars, readVars, curVars, updVars, mutexVars, widenVars, histVars, contendVars>>
BndNext ==
    \/ \E a \in 1..(NumArrays + 1), bounds \in PhysicalBoundaries :
          UpdateArrayBoundaries(a, bounds) /\ UNCHANGED bndRest
    \/ UpdateArrayBoundariesCommit /\ UNCHANGED bndRest
    \/ UpdateArrayBoundariesReturn /\ UNCHANGED bndRest

SpecBndInit ==
    /\ BndInit /\ LockIdle /\ RaceIdle /\ ScenIdle /\ VerIdle
    /\ RetryIdle /\ ReadIdle /\ CurIdle /\ UpdIdle /\ MutexIdle /\ WidenIdle /\ HistIdle /\ ContendIdle
SpecBnd == SpecBndInit /\ [][BndNext]_vars

(***************************************************************************)
(* The lock table with one more array name, for the effect of unlockArray, *)
(* updateArrayLock and deleteArrayLocks on the rows of other arrays,       *)
(* queries and instances.                                                  *)
(***************************************************************************)
FrameArrays == 1..(NumArrays + 1)
FrameKeys == [arrayName : FrameArrays, queryId : Queries, instanceId : Instances]

\* Mutant of UpdateLockSql: the statement does not compare instance_id.
UpdateLockSql_AnyInstance(T, desc) ==
    {IF t.arrayName = desc.arrayName /\ t.queryId = desc.queryId
     THEN [t EXCEPT !.arrayId = desc.arrayId, !.arrayVersionId = desc.arrayVersionId,
                    !.arrayVersion = desc.arrayVersion, !.lockMode = desc.lockMode]
     ELSE t : t \in T}

\* update array_version_lock set array_id=$4, array_version_id=$5, array_version=$6,
\* lock_mode=$7 where array_name=$1 and query_id=$2 and instance_id=$3
UpdateLockSql(T, desc) ==
    {IF t.arrayName = desc.arrayName /\ t.queryId = desc.queryId
        /\ t.instanceId = desc.instanceId
     THEN [t EXCEPT !.arrayId = desc.arrayId, !.arrayVersionId = desc.arrayVersionId,
                    !.arrayVersion = desc.arrayVersion, !.lockMode = desc.lockMode]
     ELSE t : t \in T}

\* SystemCatalog::updateArrayLock
UpdateArrayLockOutcome(T, desc) ==
    LET T1 == UpdateLockSql(T, desc)
        affected_rows == Cardinality({t \in T : KeyOf(t) = KeyOf(desc)})
    IN  [locks |-> T1, result |-> (affected_rows = 1)]

UpdateArrayLock(k, mode, ids) ==
    /\ updates < MaxUpdates
    /\ locks' = UpdateArrayLockOutcome(locks, CallerDesc(k, mode, ids)).locks
    /\ updates' = updates + 1
    /\ UNCHANGED isLocked

\* The requests of this part: any mode on the arrays of the other parts, a read or
\* write lock on the additional array; the LockDesc as constructed (ids 0).
FrameLockModes(a) == IF a \in Arrays THEN LockModes ELSE {RD, WR}
ZeroIds == [arrayId |-> 0, arrayVersionId |-> 0, arrayVersion |-> 0]
\* The updateArrayLock requests of this part: the ids of a version and this mode.
UpdateModes == {RM}

FrameInit ==
    /\ locks = {}
    /\ isLocked = [k \in FrameKeys |-> FALSE]
    /\ updates = 0

frameRest == <<raceVars, scenVars, verVars, bndVars, retryVars, readVars, curVars, mutexVars, widenVars, histVars, contendVars>>
FrameNext ==
    \/ \E k \in FrameKeys : \E mode \in FrameLockModes(k.arrayName) :
          LockArray(k, mode, ZeroIds, "none") /\ UNCHANGED <<updates, frameRest>>
    \/ \E k \in FrameKeys : UnlockArray(k) /\ UNCHANGED <<updates, frameRest>>
    \/ \E i \in Instances, q \in Queries \cup {0, INVALID_QUERY_ID},
          role \in Roles \cup {INVALID_ROLE} :
             DeleteArrayLocks(i, q, role) /\ UNCHANGED <<updates, frameRest>>
    \/ \E k \in FrameKeys, mode \in UpdateModes, ids \in LockDescIds \ {ZeroIds} :
          UpdateArrayLock(k, mode, ids) /\ UNCHANGED frameRest

SpecFrameInit ==
    /\ FrameInit /\ RaceIdle /\ ScenIdle /\ VerIdle /\ BndIdle
    /\ RetryIdle /\ ReadIdle /\ CurIdle /\ MutexIdle /\ WidenIdle /\ HistIdle /\ ContendIdle
SpecFrame == SpecFrameInit /\ [][FrameNext]_vars

(***************************************************************************)
(* SystemCatalog::readArrayLocks.  coordLocks and workerLocks are the      *)
(* caller's lists, passed by reference; they are bags here, the order of   *)
(* the rows of the select being unspecified.  The unit of work appends to  *)
(* them and then commits; a broken_connection leaves it through the        *)
(* rethrowing handler of the try block, which encloses the statement and   *)
(* the commit, and runRestartableWork runs it again on the same lists.     *)
(***************************************************************************)
\* The LockDesc built from a row of the select.
ReadLockDesc(t, instanceId) ==
    [LockDesc(t.arrayName, t.queryId, instanceId, t.instanceRole, t.lockMode)
        EXCEPT !.arrayVersion = t.arrayVersion,
               !.arrayId = t.arrayId,
               !.arrayVersionId = t.arrayVersionId]

\* select ... from array_version_lock where instance_id=$1
ReadLocksSql(T, instanceId) == {t \in T : t.instanceId = instanceId}

\* The loop over the result: push_back into coordLocks or workerLocks.
ReadAppend(call, query_res) ==
    [call EXCEPT
        !.coordLocks = @ (+) SetToBag({ReadLockDesc(t, call.instanceId) :
                                 t \in {x \in query_res : x.instanceRole = COORD}}),
        !.workerLocks = @ (+) SetToBag({ReadLockDesc(t, call.instanceId) :
                                 t \in {x \in query_res : x.instanceRole # COORD}})]

ReadNoCall ==
    [pc |-> "idle", instanceId |-> 0, coordLocks |-> EmptyBag, workerLocks |-> EmptyBag,
     tries |-> 0, table |-> {}]

ReadInit ==
    /\ LockInit
    /\ readCall = ReadNoCall

ReadNotRunning == readCall.pc = "idle"

\* The caller passes two empty lists.
ReadArrayLocksCall(i) ==
    /\ ReadNotRunning
    /\ readCall' = [ReadNoCall EXCEPT !.pc = "run", !.instanceId = i, !.tries = 1,
                                      !.table = locks]
    /\ UNCHANGED lockVars

\* The select and the loop over its rows.
ReadArrayLocksExec ==
    /\ readCall.pc = "run"
    /\ readCall' = [ReadAppend(readCall, ReadLocksSql(locks, readCall.instanceId))
                      EXCEPT !.pc = "commit"]
    /\ UNCHANGED lockVars

ReadArrayLocksCommit ==
    /\ readCall.pc = "commit"
    /\ readCall' = [readCall EXCEPT !.pc = "done"]
    /\ UNCHANGED lockVars

\* broken_connection from the statement or from the commit: rethrown, and the unit
\* of work is run again until the tries are used up.
ReadConnectionLost ==
    /\ readCall.pc \in {"run", "commit"}
    /\ IF RunRestartableWork(readCall.tries, ReconnectTries) = "retry"
       THEN readCall' = [readCall EXCEPT !.pc = "run", !.tries = @ + 1]
       ELSE readCall' = [readCall EXCEPT !.pc = "failed"]
    /\ UNCHANGED lockVars

\* The call returns or raises; the caller takes the lists.
ReadArrayLocksReturn ==
    /\ readCall.pc \in {"done", "failed"}
    /\ readCall' = ReadNoCall
    /\ UNCHANGED lockVars

readRest == <<raceVars, scenVars, verVars, bndVars, retryVars, curVars, updVars, mutexVars, widenVars, histVars, contendVars>>
ReadNext ==
    \/ \E k \in LockKeys, mode \in LockModes, ids \in LockDescIds :
          ReadNotRunning /\ LockArray(k, mode, ids, "none") /\ UNCHANGED <<readVars, readRest>>
    \/ \E k \in LockKeys :
          ReadNotRunning /\ UnlockArray(k) /\ UNCHANGED <<readVars, readRest>>
    \/ \E i \in Instances : ReadArrayLocksCall(i) /\ UNCHANGED readRest
    \/ ReadArrayLocksExec /\ UNCHANGED readRest
    \/ ReadArrayLocksCommit /\ UNCHANGED readRest
    \/ ReadConnectionLost /\ UNCHANGED readRest
    \/ ReadArrayLocksReturn /\ UNCHANGED readRest

SpecReadInit ==
    /\ ReadInit /\ RaceIdle /\ ScenIdle /\ VerIdle /\ BndIdle
    /\ RetryIdle /\ CurIdle /\ UpdIdle /\ MutexIdle /\ WidenIdle /\ HistIdle /\ ContendIdle
SpecRead == SpecReadInit /\ [][ReadNext]_vars

(***************************************************************************)
(* SystemCatalog::getCurrentVersion for a batch of locks.  Array names are *)
(* strings here, sequences of characters, because the statement compares   *)
(* them as patterns: each name of the batch is put as it is into one       *)
(* alternative of the pattern, followed by an optional group of @ and any  *)
(* string, and in a SIMILAR TO pattern the character _ stands for any one  *)
(* character.                                                              *)
(***************************************************************************)
NameChars == {"a", "_"}

RECURSIVE StringsOfLen(_)
StringsOfLen(n) ==
    IF n = 0 THEN {<<>>}
    ELSE {<<c>> \o s : c \in NameChars, s \in StringsOfLen(n - 1)}
CurNames == UNION {StringsOfLen(n) : n \in 1..MaxNameLen}

\* The column "name" of a row: NAME or NAME@version.
NameString(name) ==
    IF isNameUnversioned(name) THEN name.base
    ELSE name.base \o <<"@", ToString(getVersionFromName(name))>>

\* One character of a SIMILAR TO pattern against one character of the string.
SimilarToChar(p, c) == p = "_" \/ p = c

\* s SIMILAR TO the alternative of NAME: NAME, then nothing or @ and anything.
SimilarToName(s, NAME) ==
    /\ Len(s) >= Len(NAME)
    /\ \A j \in 1..Len(NAME) : SimilarToChar(NAME[j], s[j])
    /\ Len(s) = Len(NAME) \/ s[Len(NAME) + 1] = "@"

\* substring(ARR.name, '([^@]+).*'): the characters before the first @.
SubstringBeforeAt(s) ==
    LET ats == {j \in 1..Len(s) : s[j] = "@"}
    IN  IF ats = {} THEN s
        ELSE SubSeq(s, 1, (CHOOSE j \in ats : \A i \in ats : j <= i) - 1)

\* select substring(ARR.name,'([^@]+).*') as arr_name, max(ARR.id) as max_arr_id
\* from "array" as ARR where ARR.name similar to $1 group by arr_name
CurrentVersionSql(a, names) ==
    LET matched == {r \in a : \E n \in names : SimilarToName(NameString(r.name), n)}
        arr_name(r) == SubstringBeforeAt(NameString(r.name))
    IN  {[arr_name |-> g,
          max_arr_id |-> MaxOf({r.id : r \in {x \in matched : arr_name(x) = g}})] :
            g \in {arr_name(r) : r \in matched}}

CurNoCall == [pc |-> "idle", ids |-> <<>>, read |-> {}, result |-> "none"]

CurInit ==
    /\ arr = {} /\ arrayIdSeq = 0
    /\ cur = CurNoCall

\* addArray of a new array, committed: the next id of array_id_seq and the row.
CurAddArray(n) ==
    /\ arrayIdSeq < MaxArrayId
    /\ LET desc == ArrayDesc(arrayIdSeq + 1, arrayIdSeq + 1, ArrayName(n, 0), 0)
       IN  /\ AddArrayValid(desc)
           /\ ~ArrayUniqueViolation(arr, {AddArraySql(desc)})
           /\ arr' = arr \cup {AddArraySql(desc)}
    /\ arrayIdSeq' = arrayIdSeq + 1
    /\ UNCHANGED cur

\* addArrayVersion for an existing array, committed: the row NAME@version.
CurAddArrayVersion(n) ==
    /\ arrayIdSeq < MaxArrayId
    /\ \E base \in arr :
          /\ base.name = ArrayName(n, 0)
          /\ LET vid == Cardinality({r \in arr : r.name.base = n})
                 desc == ArrayDesc(arrayIdSeq + 1, base.id, ArrayName(n, vid), vid)
             IN  /\ vid <= MaxVersion
                 /\ AddArrayValid(desc)
                 /\ ~ArrayUniqueViolation(arr, {AddArraySql(desc)})
                 /\ arr' = arr \cup {AddArraySql(desc)}
    /\ arrayIdSeq' = arrayIdSeq + 1
    /\ UNCHANGED cur

\* The caller passes locks on distinct array names, arrayCatalogId 0 in each.
GetCurrentVersionCall(names) ==
    /\ cur.pc = "idle"
    /\ cur' = [CurNoCall EXCEPT !.pc = "run", !.ids = [n \in names |-> 0]]
    /\ UNCHANGED <<arr, arrayIdSeq>>

\* The statement and the loop over its rows, in the order the store returns them:
\* setArrayCatalogId for a row whose arr_name is in name2lock, the ASSERT_EXCEPTION
\* for one whose arr_name is not.
GetCurrentVersionExec ==
    /\ cur.pc = "run"
    /\ LET query_res == CurrentVersionSql(arr, DOMAIN cur.ids)
           known == {x \in query_res : x.arr_name \in DOMAIN cur.ids}
           stamp(rows) ==
               [n \in DOMAIN cur.ids |->
                   IF \E x \in rows : x.arr_name = n
                   THEN (CHOOSE x \in rows : x.arr_name = n).max_arr_id
                   ELSE cur.ids[n]]
       IN  IF known = query_res
           THEN cur' = [cur EXCEPT !.pc = "commit", !.ids = stamp(query_res), !.read = arr]
           ELSE \E before \in SUBSET known :
                   cur' = [cur EXCEPT !.pc = "done", !.ids = stamp(before), !.read = arr,
                                      !.result = "invalid array name"]
    /\ UNCHANGED <<arr, arrayIdSeq>>

GetCurrentVersionCommit ==
    /\ cur.pc = "commit"
    /\ cur' = [cur EXCEPT !.pc = "done", !.result = "ok"]
    /\ UNCHANGED <<arr, arrayIdSeq>>

GetCurrentVersionReturn ==
    /\ cur.pc = "done"
    /\ cur' = CurNoCall
    /\ UNCHANGED <<arr, arrayIdSeq>>

CurBatches == {B \in SUBSET CurNames : Cardinality(B) \in 1..MaxBatch}

curRest == <<lockVars, raceVars, scenVars, bndVars, retryVars, readVars, updVars,
             ver, writer, okCalls, reader, mutexVars, widenVars, histVars, contendVars>>
CurNext ==
    \/ \E n \in CurNames : CurAddArray(n) /\ UNCHANGED curRest
    \/ \E n \in CurNames : CurAddArrayVersion(n) /\ UNCHANGED curRest
    \/ \E B \in CurBatches : GetCurrentVersionCall(B) /\ UNCHANGED curRest
    \/ GetCurrentVersionExec /\ UNCHANGED curRest
    \/ GetCurrentVersionCommit /\ UNCHANGED curRest
    \/ GetCurrentVersionReturn /\ UNCHANGED curRest

SpecCurInit ==
    /\ CurInit
    /\ ver = {} /\ writer = <<>> /\ okCalls = <<>> /\ reader = <<>>
    /\ LockIdle /\ RaceIdle /\ ScenIdle /\ BndIdle /\ RetryIdle /\ ReadIdle /\ UpdIdle /\ MutexIdle /\ WidenIdle /\ HistIdle /\ ContendIdle
SpecCur == SpecCurInit /\ [][CurNext]_vars

(***************************************************************************)
(* The retry policies around a unit of work.  A store failure is the       *)
(* exception the unit of work meets: its C++ type and the words of its     *)
(* what() text.  The store of this part follows a script: it fails with    *)
(* the exceptions of the script in turn and then succeeds.                 *)
(***************************************************************************)
SERIALIZATION_CONFLICT == <<"ERROR:", "could", "not", "serialize", "access">>

BrokenConnection == [type |-> "broken_connection", what |-> <<"connection", "lost">>]
SerializationFailure ==
    [type |-> "sql_error",
     what |-> <<"ERROR:", "could", "not", "serialize", "access", "due", "to",
                "concurrent", "update">>]
UniqueViolationError ==
    [type |-> "unique_violation", what |-> <<"ERROR:", "duplicate", "key", "value">>]
OtherSqlError ==
    [type |-> "sql_error", what |-> <<"ERROR:", "could", "not", "open", "relation">>]
PqxxFailure == [type |-> "failure", what |-> <<"in", "doubt">>]
ArrayDoesntExist == [type |-> "Exception", what |-> <<"SCIDB_LE_ARRAY_DOESNT_EXIST">>]
InvalidRequest == [type |-> "Exception", what |-> <<"SCIDB_LE_INVALID_FUNCTION_ARGUMENT">>]
StoreFailures ==
    {BrokenConnection, SerializationFailure, UniqueViolationError, OtherSqlError,
     PqxxFailure, ArrayDoesntExist, InvalidRequest}

(* throwOnSerializationConflict: TRUE when it raises TxnIsolationConflict, *)
(* which it does when what() starts with the text of a serialization       *)
(* failure.                                                                *)
ThrowOnSerializationConflict_Never(e) == FALSE
ThrowOnSerializationConflict_Always(e) == TRUE
ThrowOnSerializationConflict(e) ==
    LET scSize == Len(SERIALIZATION_CONFLICT)
    IN  /\ Len(e.what) >= scSize
        /\ SubSeq(e.what, 1, scSize) = SERIALIZATION_CONFLICT

(* The catch clauses of _addArrayVersion: what leaves the unit of work. *)
CatchAddArrayVersion(e) ==
    IF e.type = "broken_connection" THEN "broken_connection"
    ELSE IF e.type \in {"sql_error", "unique_violation"}
    THEN IF ThrowOnSerializationConflict(e) THEN "TxnIsolationConflict"
         ELSE "PG_QUERY_EXECUTION_FAILED"
    ELSE IF e.type = "failure" THEN "UNKNOWN_ERROR"
    ELSE e.what[1]

\* Mutant of CatchLockArray: the sql_error clause classifies a serialization conflict.
CatchLockArray_Classifies(e, desc) ==
    IF e.type = "unique_violation"
    THEN OnUniqueViolation({}, desc).result
    ELSE IF e.type = "broken_connection" THEN "broken_connection"
    ELSE IF e.type = "sql_error"
    THEN IF ThrowOnSerializationConflict(e) THEN "TxnIsolationConflict"
         ELSE "PG_QUERY_EXECUTION_FAILED"
    ELSE IF e.type = "failure" THEN "UNKNOWN_ERROR"
    ELSE e.what[1]

(* The catch clauses of _lockArray; a unique_violation is handled by       *)
(* OnUniqueViolation.                                                      *)
CatchLockArray(e, desc) ==
    IF e.type = "unique_violation"
    THEN OnUniqueViolation({}, desc).result
    ELSE IF e.type = "broken_connection" THEN "broken_connection"
    ELSE IF e.type = "sql_error" THEN "PG_QUERY_EXECUTION_FAILED"
    ELSE IF e.type = "failure" THEN "UNKNOWN_ERROR"
    ELSE e.what[1]

(* addArrayVersion, getArrayDesc and getCurrentVersion run under the       *)
(* serialization-conflict policy inside the connection-loss policy,        *)
(* lockArray under the connection-loss policy.  The catch clauses of       *)
(* _getArrayDesc and _getCurrentVersion are those of _addArrayVersion.     *)
RetryOps == {"addArrayVersion", "getArrayDesc", "getCurrentVersion", "lockArray"}

\* The isolation level of the transaction of the unit of work: _addArrayVersion
\* declares pqxx::transaction<pqxx::serializable>, _lockArray declares pqxx::work,
\* which is the transaction of the default level, read committed.
TransactionIsolation(op) ==
    IF op = "addArrayVersion" THEN "serializable" ELSE "read_committed"
HasSerializationPolicy(op) == op \in {"addArrayVersion", "getArrayDesc", "getCurrentVersion"}

RECURSIVE ScriptsUpTo(_)
ScriptsUpTo(n) ==
    IF n = 0 THEN {<<>>}
    ELSE LET S == ScriptsUpTo(n - 1)
         IN  S \cup {<<e>> \o s : e \in StoreFailures, s \in {x \in S : Len(x) = n - 1}}
Scripts == ScriptsUpTo(MaxFailures)

RetryInit ==
    retry \in {[op |-> op, desc |-> [LockDesc(1, 1, 1, role, WR) EXCEPT !.isLocked = l],
                given |-> s, script |-> s, serTries |-> 1, connTries |-> 1,
                executions |-> 0, pc |-> "run", raised |-> "none", result |-> "none"] :
                  op \in RetryOps, role \in {COORD, WORKER}, l \in BOOLEAN, s \in Scripts}

(* The unit of work runs once against the store. *)
RetryWork ==
    /\ retry.pc = "run"
    /\ IF retry.script = <<>>
       THEN retry' = [retry EXCEPT !.executions = @ + 1, !.pc = "done", !.result = "ok"]
       ELSE LET e == Head(retry.script)
                r == IF retry.op = "lockArray" THEN CatchLockArray(e, retry.desc)
                     ELSE CatchAddArrayVersion(e)
            IN  retry' = [retry EXCEPT !.executions = @ + 1, !.script = Tail(@),
                             !.pc = IF r = "true" THEN "done" ELSE "inner",
                             !.raised = IF r = "true" THEN "none" ELSE r,
                             !.result = IF r = "true" THEN "true" ELSE "none"]

(* runRestartableWork<void, TxnIsolationConflict>(work1, _serializedTxnTries) *)
RetrySerializationPolicy ==
    /\ retry.pc = "inner"
    /\ IF HasSerializationPolicy(retry.op) /\ retry.raised = "TxnIsolationConflict"
       THEN IF RunRestartableWork(retry.serTries, SerializedTxnTries) = "retry"
            THEN retry' = [retry EXCEPT !.pc = "run", !.serTries = @ + 1,
                                        !.raised = "none"]
            ELSE retry' = [retry EXCEPT !.pc = "outer",
                                        !.raised = "FatalSerializationConflict"]
       ELSE retry' = [retry EXCEPT !.pc = "outer"]

\* Mutant of RetryConnectionPolicy: the serialization budget is not renewed.
RetryConnectionPolicy_KeepsBudget ==
    /\ retry.pc = "outer"
    /\ IF retry.raised = "broken_connection"
       THEN IF RunRestartableWork(retry.connTries, ReconnectTries) = "retry"
            THEN retry' = [retry EXCEPT !.pc = "run", !.connTries = @ + 1,
                                        !.raised = "none"]
            ELSE retry' = [retry EXCEPT !.pc = "done", !.raised = "none",
                                        !.result = "FatalConnectionLost"]
       ELSE retry' = [retry EXCEPT !.pc = "done", !.raised = "none",
                                   !.result = retry.raised]

(* runRestartableWork<void, broken_connection>(work2, _reconnectTries) *)
RetryConnectionPolicy ==
    /\ retry.pc = "outer"
    /\ IF retry.raised = "broken_connection"
       THEN IF RunRestartableWork(retry.connTries, ReconnectTries) = "retry"
            THEN retry' = [retry EXCEPT !.pc = "run", !.connTries = @ + 1,
                                        !.serTries = 1, !.raised = "none"]
            ELSE retry' = [retry EXCEPT !.pc = "done", !.raised = "none",
                                        !.result = "FatalConnectionLost"]
       ELSE retry' = [retry EXCEPT !.pc = "done", !.raised = "none",
                                   !.result = retry.raised]

retryRest == <<lockVars, raceVars, scenVars, verVars, bndVars, readVars, curVars, updVars, mutexVars, widenVars, histVars, contendVars>>
RetryNext ==
    \/ RetryWork /\ UNCHANGED retryRest
    \/ RetrySerializationPolicy /\ UNCHANGED retryRest
    \/ RetryConnectionPolicy /\ UNCHANGED retryRest

SpecRetryInit ==
    /\ RetryInit /\ LockIdle /\ RaceIdle /\ ScenIdle /\ VerIdle /\ BndIdle
    /\ ReadIdle /\ CurIdle /\ UpdIdle /\ MutexIdle /\ WidenIdle /\ HistIdle /\ ContendIdle
SpecRetry == SpecRetryInit /\ [][RetryNext]_vars

(***************************************************************************)
(* SystemCatalog::_pgLock, the mutex of the one connection of a process.   *)
(* Each thread runs lockArray or addArrayVersion: the wrapper calls the    *)
(* unit of work again after a retriable failure, and the unit of work      *)
(* takes the mutex with a ScopedMutexLock.  In _lockArray the scoped lock  *)
(* lives in the inner block around the transaction; in _addArrayVersion it *)
(* lives in the function, around the try block and its handlers.           *)
(***************************************************************************)
Threads == 1..NumThreads
MutexOps == {"lockArray", "addArrayVersion"}
MutexFailures == {"broken_connection", "serialization", "other"}

MutexNoCall == [op |-> "none", pc |-> "idle", txns |-> 0, connTries |-> 0, serTries |-> 0,
                raised |-> "none"]

MutexInit ==
    /\ thread = [t \in Threads |-> MutexNoCall]
    /\ pgLock = 0

\* Mutant of MutexFree: the scoped lock does not wait for the holder.
MutexFree_NoWait == TRUE

\* Mutex::lock blocks until no thread holds the mutex.
MutexFree == pgLock = 0

\* The scoped lock of the unit of work is destroyed before the handlers of a failure
\* run: true of _lockArray, whose lock is declared inside the try block.
ReleasedBeforeHandler(op) == op = "lockArray"

\* The failures the wrapper of the operation answers by calling the work again.
MutexRetriable(c) ==
    \/ c.raised = "broken_connection" /\ c.connTries < ReconnectTries
    \/ /\ c.raised = "serialization" /\ c.op = "addArrayVersion"
       /\ c.serTries < SerializedTxnTries

\* A thread enters lockArray or addArrayVersion; the wrapper invokes the unit of work.
MutexCall(t, op) ==
    /\ thread[t].pc = "idle"
    /\ thread' = [thread EXCEPT ![t] = [MutexNoCall EXCEPT !.op = op, !.pc = "wait"]]
    /\ UNCHANGED pgLock

\* ScopedMutexLock mutexLock(_pgLock)
MutexAcquire(t) ==
    /\ thread[t].pc = "wait"
    /\ MutexFree
    /\ pgLock' = t
    /\ thread' = [thread EXCEPT ![t].pc = "held", ![t].txns = 0]

\* work tr(*_connection) / pqxx::transaction<pqxx::serializable> tr(*_connection)
MutexBegin(t) ==
    /\ thread[t].pc = "held"
    /\ thread' = [thread EXCEPT ![t].pc = "txn", ![t].txns = @ + 1]
    /\ UNCHANGED pgLock

\* tr.commit() and the end of the scope of the lock.  A coordinator of lockArray whose
\* insert affected no row leaves the block and goes on to the errorChecker; every
\* other call returns from inside the scope.
MutexCommit(t, refused) ==
    /\ thread[t].pc = "txn"
    /\ refused => thread[t].op = "lockArray"
    /\ thread' = [thread EXCEPT ![t].pc = IF refused THEN "checker" ELSE "done"]
    /\ pgLock' = IF pgLock = t THEN 0 ELSE pgLock

\* A statement or the commit throws: the transaction object is destroyed, and the
\* scoped lock with it when it was declared inside the try block.
MutexThrow(t, e) ==
    /\ thread[t].pc = "txn"
    /\ thread' = [thread EXCEPT ![t].pc = "handler", ![t].raised = e]
    /\ pgLock' = IF pgLock = t /\ ReleasedBeforeHandler(thread[t].op) THEN 0 ELSE pgLock

\* The handler rethrows or translates, the unit of work is left, and the wrapper
\* either gives up or is about to call the work again.
MutexHandler(t) ==
    /\ thread[t].pc = "handler"
    /\ thread' = [thread EXCEPT ![t].pc = IF MutexRetriable(thread[t]) THEN "retry" ELSE "done"]
    /\ pgLock' = IF pgLock = t THEN 0 ELSE pgLock

\* Query::runRestartableWork calls the unit of work again.
MutexRetry(t) ==
    /\ thread[t].pc = "retry"
    /\ thread' = [thread EXCEPT
          ![t].pc = "wait",
          ![t].connTries = IF thread[t].raised = "broken_connection" THEN @ + 1 ELSE @,
          ![t].serTries = IF thread[t].raised = "serialization" THEN @ + 1 ELSE @,
          ![t].raised = "none"]
    /\ UNCHANGED pgLock

\* if (errorChecker && !errorChecker()) return false; throw LockBusyException
MutexChecker(t) ==
    /\ thread[t].pc = "checker"
    /\ thread' = [thread EXCEPT ![t].pc = "done"]
    /\ UNCHANGED pgLock

\* The call is over.
MutexReturn(t) ==
    /\ thread[t].pc = "done"
    /\ thread' = [thread EXCEPT ![t] = MutexNoCall]
    /\ UNCHANGED pgLock

mutexRest == <<lockVars, raceVars, scenVars, verVars, bndVars, retryVars, readVars, curVars,
               updVars, widenVars, histVars, contendVars>>
MutexNext ==
    \/ \E t \in Threads, op \in MutexOps : MutexCall(t, op) /\ UNCHANGED mutexRest
    \/ \E t \in Threads : MutexAcquire(t) /\ UNCHANGED mutexRest
    \/ \E t \in Threads : MutexBegin(t) /\ UNCHANGED mutexRest
    \/ \E t \in Threads, refused \in BOOLEAN : MutexCommit(t, refused) /\ UNCHANGED mutexRest
    \/ \E t \in Threads, e \in MutexFailures : MutexThrow(t, e) /\ UNCHANGED mutexRest
    \/ \E t \in Threads : MutexHandler(t) /\ UNCHANGED mutexRest
    \/ \E t \in Threads : MutexRetry(t) /\ UNCHANGED mutexRest
    \/ \E t \in Threads : MutexChecker(t) /\ UNCHANGED mutexRest
    \/ \E t \in Threads : MutexReturn(t) /\ UNCHANGED mutexRest

SpecMutexInit ==
    /\ MutexInit /\ LockIdle /\ RaceIdle /\ ScenIdle /\ VerIdle /\ BndIdle
    /\ RetryIdle /\ ReadIdle /\ CurIdle /\ UpdIdle /\ WidenIdle /\ HistIdle /\ ContendIdle
SpecMutex == SpecMutexInit /\ [][MutexNext]_vars

(***************************************************************************)
(* updateArrayBoundaries called by several instances for the same array.   *)
(* Each call is one read-committed transaction of 2 * NumDims update       *)
(* statements, low then high for dimension 0, 1, ...  A statement whose    *)
(* condition holds on the committed row waits while another transaction    *)
(* has written that row and is then evaluated on the row that transaction  *)
(* committed; a statement whose condition fails passes on.  A transaction  *)
(* sees its own writes.  arrayDimension is the committed table.            *)
(***************************************************************************)
WidenArray == 1
WidenRows ==
    {r \in DimensionRows : /\ r.currStart = 0 /\ r.currEnd = 0
                           /\ r.startMin <= 0 /\ r.endMax >= 0}
WidenBounds == {b \in PhysicalBoundaries : \A i \in Dims : b.low[i] <= 0 /\ b.high[i] >= 0}

WidenInit ==
    /\ arrayDimension \in [{WidenArray} -> [Dims -> WidenRows]]
    /\ bndCall = <<>>
    /\ widen \in {[initial |-> arrayDimension,
                   rowLock |-> [i \in Dims |-> 0],
                   committed |-> {},
                   calls |-> [w \in Writers |->
                                [pc |-> "idle", bounds |-> b[w], step |-> 0, made |-> 0,
                                 pending |-> <<>>]]] :
                     b \in [Writers -> WidenBounds]}

\* The row of dimension i that the transaction of writer w reads.
WidenVisibleRow(w, i) ==
    IF i \in DOMAIN widen.calls[w].pending THEN widen.calls[w].pending[i]
    ELSE arrayDimension[WidenArray][i]

\* Statement number `step` of _updateArrayBoundaries applied to a row.
WidenStatement(step, trimmed, row) ==
    IF step % 2 = 0 THEN UpdateLowBoundary(row, trimmed.low[step \div 2])
    ELSE UpdateHighBoundary(row, trimmed.high[step \div 2])

\* updateArrayBoundaries(desc, bounds) is called again by writer w: work tr(*_connection)
WidenBegin(w) ==
    /\ widen.calls[w].pc = "idle"
    /\ widen.calls[w].made < MaxCalls
    /\ widen' = [widen EXCEPT !.calls[w].pc = "txn", !.calls[w].step = 0,
                              !.calls[w].pending = <<>>]
    /\ UNCHANGED arrayDimension

\* tr.prepared("update-low-boundary") / tr.prepared("update-high-boundary") ... exec()
WidenExec(w) ==
    LET c == widen.calls[w]
        i == c.step \div 2
        trimmed == TrimToDims(c.bounds, arrayDimension[WidenArray])
        row == WidenVisibleRow(w, i)
        new == WidenStatement(c.step, trimmed, row)
    IN  /\ c.pc = "txn"
        /\ c.step < 2 * NumDims
        /\ new # row => widen.rowLock[i] \in {0, w}
        /\ widen' = [widen EXCEPT
              !.calls[w].step = @ + 1,
              !.calls[w].pending =
                  IF new = row THEN @
                  ELSE [j \in DOMAIN @ \cup {i} |-> IF j = i THEN new ELSE @[j]],
              !.rowLock[i] = IF new = row THEN @ ELSE w]
        /\ UNCHANGED arrayDimension

\* tr.commit()
WidenCommit(w) ==
    LET c == widen.calls[w]
    IN  /\ c.pc = "txn"
        /\ c.step = 2 * NumDims
        /\ arrayDimension' = [arrayDimension EXCEPT ![WidenArray] =
              [i \in Dims |-> WidenVisibleRow(w, i)]]
        /\ widen' = [widen EXCEPT
              !.calls[w].pc = "idle", !.calls[w].made = @ + 1, !.calls[w].pending = <<>>,
              !.rowLock = [i \in Dims |-> IF @[i] = w THEN 0 ELSE @[i]],
              !.committed = @ \cup {w}]

widenRest == <<lockVars, raceVars, scenVars, verVars, retryVars, readVars, curVars, updVars,
               mutexVars, histVars, contendVars>>
WidenNext ==
    \/ \E w \in Writers : WidenBegin(w) /\ UNCHANGED <<bndCall, widenRest>>
    \/ \E w \in Writers : WidenExec(w) /\ UNCHANGED <<bndCall, widenRest>>
    \/ \E w \in Writers : WidenCommit(w) /\ UNCHANGED <<bndCall, widenRest>>

SpecWidenInit ==
    /\ WidenInit /\ LockIdle /\ RaceIdle /\ ScenIdle /\ VerIdle
    /\ RetryIdle /\ ReadIdle /\ CurIdle /\ UpdIdle /\ MutexIdle /\ HistIdle /\ ContendIdle
SpecWiden == SpecWidenInit /\ [][WidenNext]_vars

(***************************************************************************)
(* The versions of one base array over its history: addArrayVersion,       *)
(* deleteVersion and deleteArray(id), each a transaction of its own.  A    *)
(* caller of addArrayVersion first reads the last version of the base      *)
(* array and draws an array id, builds the descriptor "base@(last+1)"      *)
(* from them, and then calls addArrayVersion.                              *)
(***************************************************************************)
HistBase == 1
HistBaseRow == ArrayRow(1, ArrayName(HistBase, 0))
HistNoCall == [pc |-> "idle", id |-> 0, vid |-> 0]

HistInit ==
    /\ arr = {HistBaseRow}
    /\ ver = {}
    /\ arrayIdSeq = HistBaseRow.id
    /\ writer = <<>> /\ okCalls = <<>> /\ reader = <<>>
    /\ hist = [log |-> <<>>, pairs |-> {}, calls |-> [w \in Writers |-> HistNoCall]]

\* delete from "array_version" where array_id=$1 and version_id = $2
DeleteVersionSql(v, array_id, version_id) ==
    {r \in v : ~(r.array_id = array_id /\ r.version_id = version_id)}

\* delete from "array" where id = $1
DeleteArrayByIdSql(a, array_id) == {r \in a : r.id # array_id}

\* The caller prepares the versioned descriptor: getLastVersion and getNextArrayId.
HistPrepare(w) ==
    /\ hist.calls[w].pc = "idle"
    /\ arrayIdSeq < MaxArrayId
    /\ arrayIdSeq' = arrayIdSeq + 1
    /\ hist' = [hist EXCEPT !.calls[w] =
          [pc |-> "ready", id |-> arrayIdSeq + 1,
           vid |-> GetLastVersion(ver, HistBaseRow.id, MaxArrayId) + 1]]
    /\ UNCHANGED <<arr, ver, writer, okCalls, reader>>

\* _addArrayVersion: _addArray of the versioned descriptor and _createNewVersion.
HistAddArrayVersion(w) ==
    LET c == hist.calls[w]
        desc == ArrayDesc(c.id, HistBaseRow.id, ArrayName(HistBase, c.vid), c.vid)
        row == CreateNewVersionSql(ver, desc.uaid, desc.id)
    IN  /\ c.pc = "ready"
        /\ IF ~AddArrayValid(desc) \/ ArrayUniqueViolation(arr, {AddArraySql(desc)})
           THEN /\ UNCHANGED <<arr, ver>>
                /\ hist' = [hist EXCEPT !.calls[w] = HistNoCall]
           ELSE /\ arr' = arr \cup {AddArraySql(desc)}
                /\ ver' = ver \cup {row}
                /\ hist' = [hist EXCEPT !.calls[w] = HistNoCall,
                                        !.log = Append(@, row.version_id),
                                        !.pairs = @ \cup {<<desc.vid, row.version_id>>}]
        /\ UNCHANGED <<arrayIdSeq, writer, okCalls, reader>>

\* deleteVersion(array_id, version_id)
HistDeleteVersion(version_id) ==
    /\ ver' = DeleteVersionSql(ver, HistBaseRow.id, version_id)
    /\ ver' # ver
    /\ UNCHANGED <<arr, arrayIdSeq, writer, okCalls, reader, hist>>

\* deleteArray(array_id) of a versioned array.  Whether the schema removes the
\* version row of the array with it is not decided by the source: both are kept.
HistDeleteArray(array_id, cascade) ==
    /\ array_id # HistBaseRow.id
    /\ arr' = DeleteArrayByIdSql(arr, array_id)
    /\ arr' # arr
    /\ ver' = IF cascade THEN {r \in ver : r.version_array_id # array_id} ELSE ver
    /\ UNCHANGED <<arrayIdSeq, writer, okCalls, reader, hist>>

histRest == <<lockVars, raceVars, scenVars, bndVars, retryVars, readVars, curVars, updVars,
              mutexVars, widenVars, contendVars>>
HistNext ==
    \/ \E w \in Writers : HistPrepare(w) /\ UNCHANGED histRest
    \/ \E w \in Writers : HistAddArrayVersion(w) /\ UNCHANGED histRest
    \/ \E v \in 1..MaxArrayId : HistDeleteVersion(v) /\ UNCHANGED histRest
    \/ \E a \in ArrayIds, cascade \in BOOLEAN : HistDeleteArray(a, cascade) /\ UNCHANGED histRest

SpecHistInit ==
    /\ HistInit /\ LockIdle /\ RaceIdle /\ ScenIdle /\ BndIdle
    /\ RetryIdle /\ ReadIdle /\ CurIdle /\ UpdIdle /\ MutexIdle /\ WidenIdle /\ ContendIdle
SpecHist == SpecHistInit /\ [][HistNext]_vars

(***************************************************************************)
(* Coordinators of several queries contending for one array.  Each calls   *)
(* lockArray, calls it again after every LockBusy, and releases a granted  *)
(* lock with unlockArray.  The first query is the one whose progress is    *)
(* asked about; each of the others may, after a release, request again or  *)
(* leave for good.  The scheduling is fair to every caller: a caller that  *)
(* can take its next step eventually takes it.                             *)
(***************************************************************************)
Requester == 1
ContendQueries == 1..(NumQueries + 1)
OtherQueries == ContendQueries \ {Requester}
ContendArray == CHOOSE a \in Arrays : TRUE
ContendDesc(q, mode) == LockDesc(ContendArray, q, CoordinatorOf(q), COORD, mode)

ContendInit ==
    /\ locks = {}
    /\ isLocked = <<>>
    /\ contend \in {[mode |-> m, wasBusy |-> FALSE,
                     pc |-> [q \in ContendQueries |-> "idle"]] : m \in LockModes}

\* lockArray by the coordinator of query q, with an errorChecker that says go on.
ContendRequest(q, mode) ==
    LET out == LockArrayOutcome(locks, ContendDesc(q, mode), "continue")
    IN  /\ contend.pc[q] = "idle"
        /\ q = Requester => mode = contend.mode
        /\ locks' = out.locks
        /\ contend' = [contend EXCEPT
              !.pc[q] = IF out.result = "true" THEN "holding" ELSE "busy",
              !.wasBusy = IF q = Requester /\ out.result # "true" THEN TRUE ELSE @]
        /\ UNCHANGED isLocked

\* The caller catches LockBusyException and is about to call lockArray again.
ContendRetry(q) ==
    /\ contend.pc[q] = "busy"
    /\ contend' = [contend EXCEPT !.pc[q] = "idle"]
    /\ UNCHANGED <<locks, isLocked>>

\* unlockArray by a holder; the requester has then finished.
ContendRelease(q) ==
    /\ contend.pc[q] = "holding"
    /\ locks' = UnlockArrayOutcome(locks, ContendDesc(q, INVALID_MODE)).locks
    /\ contend' = [contend EXCEPT !.pc[q] = IF q = Requester THEN "done" ELSE "idle"]
    /\ UNCHANGED isLocked

\* Another query stops asking for the array.
ContendLeave(q) ==
    /\ q \in OtherQueries
    /\ contend.pc[q] = "idle"
    /\ contend' = [contend EXCEPT !.pc[q] = "done"]
    /\ UNCHANGED <<locks, isLocked>>

contendRest == <<raceVars, scenVars, verVars, bndVars, retryVars, readVars, curVars, updVars,
                 mutexVars, widenVars, histVars>>
ContendNext ==
    \/ \E q \in ContendQueries, mode \in LockModes :
          ContendRequest(q, mode) /\ UNCHANGED contendRest
    \/ \E q \in ContendQueries : ContendRetry(q) /\ UNCHANGED contendRest
    \/ \E q \in ContendQueries : ContendRelease(q) /\ UNCHANGED contendRest
    \/ \E q \in ContendQueries : ContendLeave(q) /\ UNCHANGED contendRest

ContendFairness ==
    \A q \in ContendQueries :
        /\ WF_vars(\E mode \in LockModes : ContendRequest(q, mode) /\ UNCHANGED contendRest)
        /\ WF_vars(ContendRetry(q) /\ UNCHANGED contendRest)
        /\ WF_vars(ContendRelease(q) /\ UNCHANGED contendRest)

SpecContendInit ==
    /\ ContendInit /\ RaceIdle /\ ScenIdle /\ VerIdle /\ BndIdle
    /\ RetryIdle /\ ReadIdle /\ CurIdle /\ UpdIdle /\ MutexIdle /\ WidenIdle /\ HistIdle
SpecContend == SpecContendInit /\ [][ContendNext]_vars /\ ContendFairness

(***************************************************************************)
(* Properties of the lock table.                                           *)
(***************************************************************************)
WriteModes == {WR, CRT, XCL, RM}

RowsOf(T, a, q) == {r \in T : r.arrayName = a /\ r.queryId = q}

CoordKeys == {k \in LockKeys : InstanceRoleOf(k.queryId, k.instanceId) = COORD}
WorkerKeys == {k \in LockKeys : InstanceRoleOf(k.queryId, k.instanceId) = WORKER}

\* C1: for each array name, the lock rows of mode WR, CRT, XCL or RM all belong to
\* one query: two distinct queries never hold such a lock on the same array.
C1_WriteLockExclusion ==
    \A r1 \in locks, r2 \in locks :
        (/\ r1.arrayName = r2.arrayName
         /\ r1.lockMode \in WriteModes
         /\ r2.lockMode \in WriteModes) => r1.queryId = r2.queryId

\* A query holds a write-mode lock on an array, on its coordinator and on a worker,
\* while another query holds a row on the same array.
C1_Witness ==
    \E r1 \in locks, r2 \in locks, r3 \in locks :
        /\ r1.arrayName = r2.arrayName /\ r1.queryId = r2.queryId
        /\ r1.instanceRole = COORD /\ r2.instanceRole = WORKER
        /\ r1.lockMode \in WriteModes /\ r2.lockMode \in WriteModes
        /\ r3.arrayName = r1.arrayName /\ r3.queryId # r1.queryId

\* The LockDesc with which the holder of row r was granted its lock.
HeldDesc(r) ==
    [arrayName |-> r.arrayName, arrayId |-> r.arrayId, queryId |-> r.queryId,
     instanceId |-> r.instanceId, arrayVersionId |-> r.arrayVersionId,
     arrayVersion |-> r.arrayVersion, instanceRole |-> r.instanceRole,
     lockMode |-> r.lockMode, isLocked |-> isLocked[KeyOf(r)]]

SameIds(x, y) ==
    /\ x.arrayId = y.arrayId
    /\ x.arrayVersionId = y.arrayVersionId
    /\ x.arrayVersion = y.arrayVersion

WorkerModes == {WR, XCL, RNF}

\* C5 as stated: whenever a worker's lockArray for WR, XCL or RNF returns true, the
\* ids in the worker's row and LockDesc equal those of the coordinator's row for the
\* same array and query at the time of the grant.
C5_WorkerCopiesCoordNow ==
    \A k \in WorkerKeys, mode \in WorkerModes, ids \in LockDescIds :
        LET out == LockArrayOutcome(locks, CallerDesc(k, mode, ids), "none")
        IN  out.result = "true" =>
                \E cr \in RowsOf(out.locks, k.arrayName, k.queryId) :
                    /\ cr.instanceRole = COORD
                    /\ SameIds(out.desc, cr)
                    /\ \A wr \in out.locks : KeyOf(wr) = k => SameIds(wr, cr)

\* C5 amended: a worker grant leaves exactly one row for the worker's key and the
\* LockDesc carries that row's ids; when the call inserted the row, the ids are
\* those of the coordinator's row of the same array and query at the grant.
C5_WorkerCopiesCoord ==
    \A k \in WorkerKeys, mode \in WorkerModes, ids \in LockDescIds :
        LET out == LockArrayOutcome(locks, CallerDesc(k, mode, ids), "none")
            own == {wr \in out.locks : KeyOf(wr) = k}
        IN  out.result = "true" =>
                /\ Cardinality(own) = 1
                /\ \A wr \in own : SameIds(out.desc, wr) /\ wr.instanceRole = WORKER
                /\ (\A t \in locks : KeyOf(t) # k) =>
                       \E cr \in RowsOf(out.locks, k.arrayName, k.queryId) :
                           /\ cr.instanceRole = COORD
                           /\ \A wr \in own : SameIds(wr, cr)

\* A worker whose LockDesc carries ids other than the coordinator's is granted a
\* lock by inserting its row.
C5_Witness ==
    \E k \in WorkerKeys, mode \in WorkerModes, ids \in LockDescIds :
        LET out == LockArrayOutcome(locks, CallerDesc(k, mode, ids), "none")
        IN  /\ out.result = "true"
            /\ \A t \in locks : KeyOf(t) # k
            /\ \E cr \in RowsOf(locks, k.arrayName, k.queryId) :
                  cr.instanceRole = COORD /\ ~SameIds(ids, cr)


NotGranted == {"LockBusy", "false", "Error"}

\* C2: when the coordinators of different queries concurrently call lockArray on the
\* same array with conflicting modes (WR/CRT/XCL/RM), in every interleaving of their
\* transactions exactly one call is granted (returns true, its row is in the table)
\* and every other ends busy or rejected.
C2_ExactlyOneGranted ==
    (\A q \in Queries : racer[q].pc = "done") =>
        \E w \in Queries :
            /\ racer[w].result = "true"
            /\ DescRow(racer[w].desc) \in locks
            /\ \A q \in Queries \ {w} :
                  /\ racer[q].result \in NotGranted
                  /\ RowsOf(locks, racer[q].desc.arrayName, q) = {}

\* Two transactions were in progress at once (one waiting for the table lock held by
\* the other) and all calls have returned, the later one not granted.
C2_Witness ==
    /\ \A q \in Queries : racer[q].pc = "done"
    /\ \E w \in Queries, q \in Queries :
          /\ w # q
          /\ racer[w].result = "true" /\ racer[w].desc.lockMode = WR
          /\ racer[q].result = "LockBusy" /\ racer[q].desc.lockMode = XCL


\* C3: the coordinator of query 1 acquires CRT on array A and is granted; the
\* coordinator of query 2 then requests WR on A and gets busy, no row inserted; after
\* query 1's lock is released with unlockArray, query 2's retried WR is granted.
C3_CrtThenWrScenario ==
    /\ scen.step >= 1 => scen.res[1] = "true"
    /\ scen.step = 1 =>
          \E r \in locks : KeyOf(r) = ScenKey(scen.q1, scen.a) /\ r.lockMode = CRT
    /\ scen.step >= 2 => scen.res[2] \in {"LockBusy", "false"}
    /\ scen.step = 2 => RowsOf(locks, scen.a, scen.q2) = {}
    /\ scen.step >= 3 => scen.res[3] = "true"
    /\ scen.step = 3 => locks = {}
    /\ scen.step = 4 =>
          /\ scen.res[4] = "true"
          /\ \E r \in locks : KeyOf(r) = ScenKey(scen.q2, scen.a) /\ r.lockMode = WR
          /\ isLocked[ScenKey(scen.q2, scen.a)]

\* The whole sequence has run, the busy outcome being the LockBusy exception.
C3_Witness ==
    /\ scen.step = 4
    /\ scen.res = <<"true", "LockBusy", "true", "true">>

(***************************************************************************)
(* Properties of the version catalog.                                      *)
(***************************************************************************)
BaseIds(b) == {r.id : r \in {x \in arr : x.name = ArrayName(b, 0)}}

(* C6: for each base array the version rows carry exactly the version ids  *)
(* 1..N, each once and with pairwise distinct version_array_id, where N is *)
(* the number of addArrayVersion calls for that base that returned         *)
(* normally, whatever their interleaving and retries.                      *)
C6_VersionIdsDense ==
    /\ \A r \in ver : \E b \in Arrays : r.array_id \in BaseIds(b)
    /\ \A b \in Arrays :
          LET rows == {r \in ver : r.array_id \in BaseIds(b)}
          IN  /\ {r.version_id : r \in rows} = 1..okCalls[b]
              /\ Cardinality(rows) = okCalls[b]
              /\ Cardinality({r.version_array_id : r \in rows}) = okCalls[b]

C6_Witness ==
    \E b \in Arrays :
        /\ okCalls[b] = NumWriters
        /\ \A w \in Writers : writer[w].result = "ok"
        /\ \E w \in Writers : writer[w].serTries > 1

(* C7: a row of array_version exists exactly when the row of the versioned *)
(* array it names exists in table array, in every state, also after calls  *)
(* that were aborted and retried or abandoned.                             *)
C7_VersionRowIffArrayRow ==
    /\ \A r \in ver : \E a \in arr : a.id = r.version_array_id /\ isNameVersioned(a.name)
    /\ \A a \in arr : isNameVersioned(a.name) =>
                        \E r \in ver : r.version_array_id = a.id

C7_Witness ==
    /\ ver # {}
    /\ \E w \in Writers : writer[w].result = "conflict"
    /\ \E w \in Writers : writer[w].result = "ok" /\ writer[w].connTries > 1

Horizons == 0..MaxArrayId
NameVersions == 0..NumWriters

(* C8: getArrayDesc under horizon H never returns an ArrayID above H,      *)
(* with an explicit version or with LAST_VERSION and whatever has been     *)
(* committed since; when no row of the name has id <= H it reports         *)
(* not-found, as false when throwException is false.                       *)
C8_NeverAboveHorizon ==
    /\ reader.result = "desc" =>
          /\ reader.id <= reader.H
          /\ \E a \in arr : a.id = reader.id /\ a.name.base = reader.base
    /\ reader.result = "false" => ~reader.throwException
    /\ reader.result = "ArrayDoesntExist" => reader.throwException
    /\ (/\ reader.pc = "done"
        /\ LET name == IF reader.version = LAST_VERSION
                        THEN ArrayName(reader.base, 0)
                        ELSE ArrayName(reader.base, reader.version)
           IN  ~\E a \in arr : a.name = name /\ a.id <= reader.H)
          => reader.result = NotFound(reader.throwException)
    /\ \A b \in Arrays, v \in NameVersions, H \in Horizons :
          LET d == GetArrayDescTxn(arr, ArrayName(b, v), H)
          IN  /\ d.found => d.id <= H
              /\ (~\E a \in arr : a.name = ArrayName(b, v) /\ a.id <= H) => ~d.found

C8_Witness ==
    /\ reader.result = "desc"
    /\ reader.version = LAST_VERSION
    /\ reader.lastVer > 0
    /\ \E a \in arr : a.name.base = reader.base /\ a.id > reader.H

(* C9: while a query runs with the horizon H it read at its start, no      *)
(* commit of another caller changes what getLastVersion(base, H) and       *)
(* getArrayDesc(name, H) return.                                           *)
C9_SnapshotStable ==
    [][(reader.pc # "idle" /\ reader'.pc # "idle") =>
          /\ \A u \in BaseIds(reader.base) :
                GetLastVersion(ver', u, reader.H) = GetLastVersion(ver, u, reader.H)
          /\ \A v \in NameVersions :
                GetArrayDescTxn(arr', ArrayName(reader.base, v), reader.H)
                    = GetArrayDescTxn(arr, ArrayName(reader.base, v), reader.H)]_vars

AllAre(script, e) == \A j \in 1..Len(script) : script[j] = e

(* C11: against a store that fails k times with the retryable failure of   *)
(* a policy of maximum m and then succeeds, the call succeeds when k < m   *)
(* and ends with the fatal error of that kind when k >= m; the unit of     *)
(* work runs min(k+1, m) times.                                            *)
C11_RetryBound ==
    retry.pc = "done" =>
        LET k == Len(retry.given)
        IN  /\ (HasSerializationPolicy(retry.op) /\ AllAre(retry.given, SerializationFailure)) =>
                  IF k < SerializedTxnTries
                  THEN retry.result = "ok" /\ retry.executions = k + 1
                  ELSE /\ retry.result = "FatalSerializationConflict"
                       /\ retry.executions = SerializedTxnTries
            /\ AllAre(retry.given, BrokenConnection) =>
                  IF k < ReconnectTries
                  THEN retry.result = "ok" /\ retry.executions = k + 1
                  ELSE /\ retry.result = "FatalConnectionLost"
                       /\ retry.executions = ReconnectTries

C11_Witness ==
    /\ retry.pc = "done"
    /\ retry.op = "addArrayVersion"
    /\ Len(retry.given) > SerializedTxnTries
    /\ AllAre(retry.given, SerializationFailure)
    /\ retry.result = "FatalSerializationConflict"

NotRetryable(e) == e \notin {BrokenConnection, SerializationFailure}
IsReacquire(r, e) ==
    /\ r.op = "lockArray" /\ e = UniqueViolationError
    /\ r.desc.isLocked /\ r.desc.instanceRole = COORD

(* C12: a failure that is neither connection-lost nor a serialization      *)
(* conflict ends the call at once: the execution that met it is the last,  *)
(* the call ends with an error (but for the re-acquire case of lockArray), *)
(* and when it is the first failure the unit of work has run exactly once. *)
C12_OtherFailuresNotRetried ==
    retry.pc = "done" =>
        \A j \in 1..Len(retry.given) :
            (NotRetryable(retry.given[j]) /\ retry.executions >= j) =>
                /\ retry.executions = j
                /\ IF IsReacquire(retry, retry.given[j])
                   THEN retry.result = "true"
                   ELSE retry.result \in {"PG_QUERY_EXECUTION_FAILED", "UNKNOWN_ERROR", "Error",
                                          "SCIDB_LE_ARRAY_DOESNT_EXIST",
                                          "SCIDB_LE_INVALID_FUNCTION_ARGUMENT"}

C12_Witness ==
    /\ retry.pc = "done"
    /\ retry.op = "addArrayVersion"
    /\ Len(retry.given) = MaxFailures
    /\ retry.given[1] = UniqueViolationError
    /\ retry.given[2] = SerializationFailure
    /\ retry.executions = 1
    /\ retry.result = "PG_QUERY_EXECUTION_FAILED"

(***************************************************************************)
(* Properties of unlockArray, updateArrayLock and deleteArrayLocks.        *)
(***************************************************************************)
HasKey(T, k) == \E t \in T : KeyOf(t) = k

(* C13: unlockArray deletes exactly the row with the key of the LockDesc,  *)
(* returns true iff such a row existed, and leaves every other row         *)
(* unchanged.                                                              *)
C13_UnlockDeletesItsRowOnly ==
    \A k \in FrameKeys :
        LET out == UnlockArrayOutcome(locks, CallerDesc(k, INVALID_MODE, ZeroIds))
        IN  /\ out.locks = {t \in locks : KeyOf(t) # k}
            /\ out.result = HasKey(locks, k)
            /\ Cardinality(locks \ out.locks) = (IF HasKey(locks, k) THEN 1 ELSE 0)

\* A held row is unlocked while the table has a row of another array, of another
\* query on the same array and of another instance of the same query.
C13_Witness ==
    \E r, r1, r2, r3 \in locks :
        /\ r1.arrayName # r.arrayName
        /\ r2.arrayName = r.arrayName /\ r2.queryId # r.queryId
        /\ r3.arrayName = r.arrayName /\ r3.queryId = r.queryId /\ r3.instanceId # r.instanceId
        /\ UnlockArrayOutcome(locks, HeldDesc(r)).result
        /\ {r1, r2, r3} \subseteq UnlockArrayOutcome(locks, HeldDesc(r)).locks

(* C14: updateArrayLock overwrites arrayId, arrayVersionId, arrayVersion   *)
(* and lockMode of the row with the key of the LockDesc, returns true iff  *)
(* that row exists, creates no row, and leaves the key, the role and all   *)
(* other rows unchanged.                                                   *)
C14_UpdateInPlace ==
    \A k \in FrameKeys, mode \in LockModes, ids \in LockDescIds, role \in Roles :
        LET desc == [CallerDesc(k, mode, ids) EXCEPT !.instanceRole = role]
            out == UpdateArrayLockOutcome(locks, desc)
        IN  /\ out.result = HasKey(locks, k)
            /\ ~HasKey(locks, k) => out.locks = locks
            /\ Cardinality(out.locks) = Cardinality(locks)
            /\ \A t \in locks :
                  IF KeyOf(t) = k
                  THEN LockRow(t.arrayName, desc.arrayId, t.queryId, t.instanceId,
                               desc.arrayVersionId, desc.arrayVersion, t.instanceRole,
                               desc.lockMode) \in out.locks
                  ELSE t \in out.locks

\* An update has rewritten one row while a row of another instance of the same query
\* and array keeps the values it was inserted with.
C14_Witness ==
    /\ updates = 1
    /\ \E t, t2 \in locks :
          /\ t.arrayId # 0 /\ t.lockMode = RM
          /\ t2.arrayName = t.arrayName /\ t2.queryId = t.queryId
          /\ t2.instanceId # t.instanceId /\ t2.arrayId = 0

(* C15: deleteArrayLocks removes exactly the rows of the instance that     *)
(* match the query id when one is specified (0 and the invalid id mean     *)
(* unspecified) and the role when one is specified, returns their number,  *)
(* and leaves all other rows unchanged.                                    *)
C15_DeleteMatchingRowsOnly ==
    \A i \in Instances, q \in Queries \cup {0, INVALID_QUERY_ID}, role \in Roles \cup {INVALID_ROLE} :
        LET out == DeleteArrayLocksOutcome(locks, i, q, role)
            matching == {t \in locks : /\ t.instanceId = i
                                       /\ (q \in Queries => t.queryId = q)
                                       /\ (role \in Roles => t.instanceRole = role)}
        IN  /\ out.locks = locks \ matching
            /\ out.result = Cardinality(matching)

\* An instance holds rows on two arrays for one query as coordinator and a row for
\* another query as worker, another instance holds a row too, and a delete by
\* (instance, query, role) removes the first two only.
C15_Witness ==
    \E r, r1, r2, r3 \in locks :
        /\ r1.instanceId = r.instanceId /\ r1.queryId = r.queryId /\ r1.arrayName # r.arrayName
        /\ r2.instanceId = r.instanceId /\ r2.queryId # r.queryId
        /\ r2.instanceRole # r.instanceRole
        /\ r3.instanceId # r.instanceId
        /\ DeleteArrayLocksOutcome(locks, r.instanceId, r.queryId, INVALID_ROLE).result = 2
        /\ DeleteArrayLocksOutcome(locks, r.instanceId, 0, r.instanceRole).result = 2
        /\ DeleteArrayLocksOutcome(locks, r.instanceId, INVALID_QUERY_ID, INVALID_ROLE).result = 3

(***************************************************************************)
(* Properties of readArrayLocks.                                           *)
(***************************************************************************)
DescsOf(T, i, roles) ==
    {ReadLockDesc(t, i) : t \in {x \in T : x.instanceId = i /\ x.instanceRole \in roles}}

(* C16: when readArrayLocks(instanceId) has returned, every lock row of    *)
(* the instance is in its list exactly once (COORD rows in coordLocks,     *)
(* WORKER rows in workerLocks), no row of another instance is in either    *)
(* list, and the lock table is unchanged; also when the call was retried   *)
(* after a connection loss.                                                *)
C16_EachRowExactlyOnce ==
    readCall.pc = "done" =>
        /\ readCall.coordLocks = SetToBag(DescsOf(locks, readCall.instanceId, {COORD}))
        /\ readCall.workerLocks = SetToBag(DescsOf(locks, readCall.instanceId, {WORKER}))
        /\ locks = readCall.table

(***************************************************************************)
(* Properties of getLastVersion.                                           *)
(***************************************************************************)
EligibleVersions(a, H) == {x \in ver : x.array_id = a /\ x.version_array_id <= H}

(* C17: getLastVersion(baseArrayId, catalogHorizon) is the greatest        *)
(* version id among the version rows of the base array whose               *)
(* versionArrayId is <= the horizon, 0 when there is none, and is the same *)
(* with and without the version rows above the horizon.                    *)
C17_LastVersionWithinHorizon ==
    \A a \in ArrayIds, H \in Horizons :
        LET r == GetLastVersion(ver, a, H)
        IN  /\ (r = 0) = (EligibleVersions(a, H) = {})
            /\ r # 0 => /\ \E x \in EligibleVersions(a, H) : x.version_id = r
                        /\ \A x \in EligibleVersions(a, H) : x.version_id <= r
            /\ r = GetLastVersion({x \in ver : x.version_array_id <= H}, a, H)

\* A query has got a last version from getLastVersion while the base array has a
\* newer version above the horizon of the query.
C17_Witness ==
    /\ reader.pc = "gotLast" /\ reader.lastVer > 0
    /\ \E x \in ver : /\ x.array_id = reader.id
                       /\ x.version_array_id > reader.H
                       /\ x.version_id > reader.lastVer

(***************************************************************************)
(* Properties of getCurrentVersion.                                        *)
(***************************************************************************)
MaxIdOfName(a, n) == MaxOf({r.id : r \in {x \in a : x.name.base = n}} \cup {0})

(* C18: getCurrentVersion(locks) ends by setting, for each lock of the     *)
(* batch, arrayCatalogId to the maximum id over the base row and the       *)
(* versioned rows of the lock's array name, all taken from the one read of *)
(* the array table; a lock whose array has no row keeps 0.                 *)
C18_BatchStampedWithMaxIds ==
    cur.pc = "done" =>
        /\ cur.result = "ok"
        /\ \A n \in DOMAIN cur.ids : cur.ids[n] = MaxIdOfName(cur.read, n)

(***************************************************************************)
(* Properties of the refusals of lockArray.                                *)
(***************************************************************************)
AnyDesc(k, mode, ids, role) == [CallerDesc(k, mode, ids) EXCEPT !.instanceRole = role]

(* C19: when the conditional insert of a coordinator affects zero rows, no *)
(* row is added and isLocked is not set; lockArray returns false when the  *)
(* caller's check says abandon, and signals LockBusy when it says continue *)
(* (or when there is no check).                                            *)
C19_BusyCoordinator ==
    \A k \in LockKeys, mode \in LockModes, ids \in LockDescIds, c \in ErrorCheckers :
        LET desc == AnyDesc(k, mode, ids, COORD)
            out == LockArrayOutcome(locks, desc, c)
        IN  (GetLockInsertSql(desc) # "INVALID" /\ LockInsertRows(locks, desc) = {}) =>
                /\ out.locks = locks
                /\ out.desc.isLocked = desc.isLocked
                /\ ~desc.isLocked => ~out.desc.isLocked
                /\ c = "abandon" => out.result = "false"
                /\ c = "continue" => out.result = "LockBusy"
                /\ c = "none" => out.result = "LockBusy"

\* A coordinator that holds nothing asks for a write lock on an array another query
\* has locked: with a check that says abandon it gets false, with one that says
\* continue LockBusy.
C19_Witness ==
    \E k \in LockKeys :
        /\ InstanceRoleOf(k.queryId, k.instanceId) = COORD
        /\ ~isLocked[k] /\ ~HasKey(locks, k)
        /\ \E r \in locks : r.arrayName = k.arrayName /\ r.queryId # k.queryId
        /\ LockInsertRows(locks, CallerDesc(k, WR, ZeroIds)) = {}
        /\ LockArrayOutcome(locks, CallerDesc(k, WR, ZeroIds), "abandon").path = "checker"
        /\ LockArrayOutcome(locks, CallerDesc(k, WR, ZeroIds), "continue").result = "LockBusy"

InvalidCombination(mode, role) ==
    \/ role = WORKER /\ mode \in {RD, CRT, RM}
    \/ mode \notin LockModes
    \/ role \notin Roles

(* C20: a lockArray request with an invalid (mode, role) combination is    *)
(* rejected with the invalid-request error, which the connection policy    *)
(* does not retry; the lock table and the LockDesc, isLocked included, are *)
(* unchanged.                                                              *)
C20_InvalidRequestRejected ==
    \A k \in LockKeys, mode \in LockModes \cup {INVALID_MODE}, ids \in LockDescIds,
       role \in Roles \cup {INVALID_ROLE}, c \in ErrorCheckers :
        LET desc == AnyDesc(k, mode, ids, role)
            out == LockArrayOutcome(locks, desc, c)
        IN  InvalidCombination(mode, role) =>
                /\ out.result = "InvalidRequest"
                /\ out.locks = locks
                /\ out.desc = desc
                /\ ~desc.isLocked => ~out.desc.isLocked
                /\ CatchLockArray(InvalidRequest, desc) # "broken_connection"
                /\ CatchLockArray(InvalidRequest, desc) = InvalidRequest.what[1]

\* The coordinator of a query holds a write lock and a worker of the query, which
\* could take WR, asks for CRT and is rejected.
C20_Witness ==
    \E r \in locks, k \in LockKeys :
        /\ r.instanceRole = COORD /\ r.lockMode = WR
        /\ k.arrayName = r.arrayName /\ k.queryId = r.queryId
        /\ InstanceRoleOf(k.queryId, k.instanceId) = WORKER
        /\ ~isLocked[k]
        /\ LockArrayOutcome(locks, CallerDesc(k, WR, ZeroIds), "none").result = "true"
        /\ LockArrayOutcome(locks, CallerDesc(k, CRT, ZeroIds), "none").result = "InvalidRequest"

(***************************************************************************)
(* Properties of the grants of lockArray to a coordinator that holds no    *)
(* row of its own for the array.                                           *)
(***************************************************************************)
FreeCoordKeys ==
    {k \in LockKeys : InstanceRoleOf(k.queryId, k.instanceId) = COORD /\ ~HasKey(locks, k)}
Granted(k, mode, ids, c) == LockArrayOutcome(locks, CallerDesc(k, mode, ids), c).result = "true"

(* C21 as stated: a coordinator's RD request is granted iff no row of the  *)
(* array held in the COORD role has a mode above RD.                       *)
C21_RdBlockedAboveRd ==
    \A k \in FreeCoordKeys, ids \in LockDescIds, c \in ErrorCheckers :
        Granted(k, RD, ids, c) =
            ~\E r \in locks : /\ r.arrayName = k.arrayName /\ r.instanceRole = COORD
                              /\ r.lockMode > RD

(* C21: a coordinator's RD request is granted iff no row of the array held *)
(* in the COORD role has a mode above CRT (XCL, RM, RNF); rows of mode WR  *)
(* or CRT and rows held in the WORKER role do not block it.                *)
C21_RdBlockedAboveCrt ==
    \A k \in FreeCoordKeys, ids \in LockDescIds, c \in ErrorCheckers :
        Granted(k, RD, ids, c) =
            ~\E r \in locks : /\ r.arrayName = k.arrayName /\ r.instanceRole = COORD
                              /\ r.lockMode \in {XCL, RM, RNF}

\* Another query's coordinator holds CRT on the array and the RD request is granted.
C21_Witness ==
    \E k \in FreeCoordKeys, r \in locks :
        /\ r.arrayName = k.arrayName /\ r.queryId # k.queryId
        /\ r.instanceRole = COORD /\ r.lockMode = CRT
        /\ Granted(k, RD, ZeroIds, "none")

(* C22: a coordinator's WR or CRT request, made while it holds no row of   *)
(* its own for the array, is granted iff no row of the array held by a     *)
(* different query has a mode above RD.                                    *)
C22_WrBlockedByOtherQueryAboveRd ==
    \A k \in FreeCoordKeys, mode \in {WR, CRT}, ids \in LockDescIds, c \in ErrorCheckers :
        Granted(k, mode, ids, c) =
            ~\E r \in locks : /\ r.arrayName = k.arrayName /\ r.queryId # k.queryId
                              /\ r.lockMode > RD

\* A write request is granted while another query holds RD and a worker of the
\* requesting query still holds a write row.
C22_Witness ==
    \E k \in FreeCoordKeys, r \in locks, w \in locks :
        /\ r.arrayName = k.arrayName /\ r.queryId # k.queryId /\ r.lockMode = RD
        /\ w.arrayName = k.arrayName /\ w.queryId = k.queryId /\ w.lockMode = WR
        /\ Granted(k, WR, ZeroIds, "none")
        /\ Granted(k, CRT, ZeroIds, "none")

(* C23: a coordinator's XCL, RM or RNF request, made while it holds no row *)
(* of its own for the array, is granted iff the table has no row of the    *)
(* array from a different query, whatever its mode and role.               *)
C23_XclBlockedByAnyOtherQuery ==
    \A k \in FreeCoordKeys, mode \in {XCL, RM, RNF}, ids \in LockDescIds, c \in ErrorCheckers :
        Granted(k, mode, ids, c) =
            ~\E r \in locks : r.arrayName = k.arrayName /\ r.queryId # k.queryId

\* The only row of another query is an RD row, and it refuses XCL, RM and RNF.
C23_Witness ==
    \E k \in FreeCoordKeys :
        /\ \E r \in locks : r.arrayName = k.arrayName /\ r.queryId # k.queryId
        /\ \A r \in locks : (r.arrayName = k.arrayName /\ r.queryId # k.queryId) => r.lockMode = RD
        /\ \A mode \in {XCL, RM, RNF} : ~Granted(k, mode, ZeroIds, "none")

(***************************************************************************)
(* Properties of the requests of workers and of repeated requests.         *)
(***************************************************************************)
WorkerKeySet == {k \in LockKeys : InstanceRoleOf(k.queryId, k.instanceId) = WORKER}
CoordRowsOf(k, modes) ==
    {r \in locks : /\ r.arrayName = k.arrayName /\ r.queryId = k.queryId
                   /\ r.instanceRole = COORD /\ r.lockMode \in modes}
DescWith(k, mode, ids, l) == [CallerDesc(k, mode, ids) EXCEPT !.isLocked = l]

(* C24: a worker that requests RNF for an array and query whose            *)
(* coordinator holds the RNF row is granted, and its row is the copy of    *)
(* the coordinator's row with the worker's instance id and role WORKER.    *)
C24_WorkerRnfGranted ==
    \A k \in WorkerKeySet, ids \in LockDescIds, c \in ErrorCheckers :
        (CoordRowsOf(k, {RNF}) # {} /\ ~HasKey(locks, k)) =>
            LET out == LockArrayOutcome(locks, CallerDesc(k, RNF, ids), c)
            IN  /\ out.result = "true"
                /\ out.locks = locks \cup
                      {[r EXCEPT !.instanceId = k.instanceId, !.instanceRole = WORKER] :
                          r \in CoordRowsOf(k, {RNF})}

(* C25: a uniqueness violation met by lockArray with a LockDesc whose      *)
(* isLocked is false ends the call with a fatal error: it does not return  *)
(* true, isLocked stays false and the lock table is unchanged.             *)
C25_UniqueViolationUnlockedIsFatal ==
    \A k \in LockKeys, mode \in LockModes, ids \in LockDescIds, c \in ErrorCheckers :
        LET desc == DescWith(k, mode, ids, FALSE)
            out == LockArrayOutcome(locks, desc, c)
        IN  (/\ GetLockInsertSql(desc) # "INVALID"
             /\ UniqueViolation(locks, LockInsertRows(locks, desc))) =>
                /\ out.result = "Error"
                /\ ~out.desc.isLocked
                /\ out.locks = locks

\* A coordinator's row exists and the coordinator asks again with a new LockDesc.
C25_Witness ==
    \E r \in locks :
        /\ r.instanceRole = COORD /\ ~isLocked[KeyOf(r)]
        /\ LockArrayOutcome(locks, HeldDesc(r), "none").path = "unique"
        /\ LockArrayOutcome(locks, HeldDesc(r), "none").result = "Error"

(* C26 as stated: for every mode a worker may request, a second lockArray  *)
(* of a worker that holds its row ends in an error.                        *)
C26_WorkerSecondRequestIsError ==
    \A k \in WorkerKeySet, mode \in {WR, XCL}, ids \in LockDescIds, c \in ErrorCheckers :
        HasKey(locks, k) =>
            LockArrayOutcome(locks, DescWith(k, mode, ids, TRUE), c).result = "Error"

(* C26: a second WR request of a worker that holds its row never returns   *)
(* true and leaves the table unchanged: it ends in an error while the      *)
(* coordinator's WR or CRT row is present and returns false once that row  *)
(* is gone.  (A second XCL request returns true: C27.)                     *)
C26_WorkerSecondWrNeverGranted ==
    \A k \in WorkerKeySet, ids \in LockDescIds, c \in ErrorCheckers, l \in BOOLEAN :
        HasKey(locks, k) =>
            LET out == LockArrayOutcome(locks, DescWith(k, WR, ids, l), c)
            IN  /\ out.locks = locks
                /\ out.result = IF CoordRowsOf(k, {WR, CRT}) # {} THEN "Error" ELSE "false"

\* A worker holds the copy of its coordinator's write row and asks for WR again.
C26_Witness ==
    \E w \in locks :
        /\ w.instanceRole = WORKER /\ w.lockMode = WR /\ isLocked[KeyOf(w)]
        /\ CoordRowsOf(KeyOf(w), {WR}) # {}
        /\ LockArrayOutcome(locks, [HeldDesc(w) EXCEPT !.lockMode = WR], "none").path = "unique"

(* C27: an XCL request of a worker that holds its row for the array and    *)
(* query returns true, fills the LockDesc from that row, and leaves        *)
(* exactly one row for the key; with neither an own row nor a coordinator  *)
(* XCL row it returns false.                                               *)
C27_WorkerXclTolerated ==
    \A k \in WorkerKeySet, ids \in LockDescIds, c \in ErrorCheckers, l \in BOOLEAN :
        LET out == LockArrayOutcome(locks, DescWith(k, XCL, ids, l), c)
        IN  /\ HasKey(locks, k) =>
                  /\ out.result = "true"
                  /\ out.locks = locks
                  /\ out.desc.isLocked
                  /\ \A r \in locks : KeyOf(r) = k => SameIds(out.desc, r)
                  /\ Cardinality({r \in out.locks : KeyOf(r) = k}) = 1
            /\ (~HasKey(locks, k) /\ CoordRowsOf(k, {XCL}) = {}) =>
                  /\ out.result = "false"
                  /\ out.locks = locks

\* A worker holds its XCL row, with ids other than those of the repeated request,
\* and the worker of another query has neither a row nor a coordinator XCL row.
C27_Witness ==
    \E w \in locks, k \in WorkerKeySet :
        /\ w.instanceRole = WORKER /\ w.lockMode = XCL /\ w.arrayId # 0
        /\ LockArrayOutcome(locks, DescWith(KeyOf(w), XCL, ZeroIds, TRUE), "none").result = "true"
        /\ ~HasKey(locks, k) /\ CoordRowsOf(k, {XCL}) = {}
        /\ LockArrayOutcome(locks, DescWith(k, XCL, ZeroIds, FALSE), "none").result = "false"

InTransaction == {t \in Threads : thread[t].pc = "txn"}

(* C29: the connection mutex is held by a thread only around one           *)
(* transaction of its unit of work: not between two iterations of a retry  *)
(* loop, not while lockArray consults the errorChecker or raises LockBusy, *)
(* and at most one thread has a transaction open at any time.              *)
C29_MutexAroundOneTransaction ==
    /\ Cardinality(InTransaction) <= 1
    /\ \A t \in Threads :
          /\ thread[t].pc = "txn" => pgLock = t
          /\ thread[t].pc \in {"idle", "wait", "retry", "checker", "done"} => pgLock # t
          /\ pgLock = t => thread[t].txns <= 1

\* One thread has its transaction open after a retry re-acquired the mutex, while
\* another thread is at the errorChecker of lockArray.
C29_Witness ==
    \E t, u \in Threads :
        /\ thread[t].pc = "txn" /\ thread[t].connTries >= 1 /\ pgLock = t
        /\ thread[u].pc = "checker"

(***************************************************************************)
(* Properties of the transaction and the retry policies of lockArray.      *)
(***************************************************************************)

SetMin(S) == CHOOSE x \in S : \A y \in S : x <= y
SetMax(S) == CHOOSE x \in S : \A y \in S : x >= y
WidenTrimmed(w) == TrimToDims(widen.calls[w].bounds, widen.initial[WidenArray])

C32_SerializationPolicyIsInner ==
    /\ [](HasSerializationPolicy(retry.op) =>
            /\ retry.executions <= ReconnectTries * SerializedTxnTries
            /\ retry.executions <= (retry.connTries - 1) * SerializedTxnTries + retry.serTries
            /\ retry.serTries <= SerializedTxnTries
            /\ retry.connTries <= ReconnectTries)
    /\ [][(HasSerializationPolicy(retry.op) /\ retry'.pc = "run") =>
            /\ retry.pc = "inner" =>
                 /\ retry.raised = "TxnIsolationConflict"
                 /\ retry'.connTries = retry.connTries
                 /\ retry'.serTries = retry.serTries + 1
            /\ retry.pc = "outer" =>
                 /\ retry.raised = "broken_connection"
                 /\ retry'.connTries = retry.connTries + 1
                 /\ retry'.serTries = 1]_vars

\* A call that ran the unit of work ReconnectTries * SerializedTxnTries times and succeeded.
C32_Witness ==
    /\ retry.pc = "done"
    /\ retry.op = "getArrayDesc"
    /\ retry.executions = ReconnectTries * SerializedTxnTries
    /\ retry.result = "ok"
    /\ \E j \in 1..Len(retry.given) : retry.given[j] = BrokenConnection
    /\ retry.given[1] = SerializationFailure

(***************************************************************************)
(* Properties of the version ids over the history of a base array.         *)
(***************************************************************************)

(* C33: version ids of a base array are never reused: every version        *)
(* created gets an id greater than every id issued before for that base    *)
(* array, also after deleteVersion removed the version of the highest id.  *)
C33_VersionIdsNeverReused ==
    \A i, j \in DOMAIN hist.log : i < j => hist.log[i] < hist.log[j]

(* C39: the version id that addArrayVersion records in array_version       *)
(* equals the version id of the versioned descriptor, for every call.      *)
C39_RecordedVersionIsDescVersion ==
    \A p \in hist.pairs : p[1] = p[2]

(***************************************************************************)
(* Properties of the lock modes after updateArrayLock.                     *)
(***************************************************************************)
WriteLockExclusionIn(T) ==
    \A r1 \in T, r2 \in T :
        (/\ r1.arrayName = r2.arrayName
         /\ r1.lockMode \in WriteModes
         /\ r2.lockMode \in WriteModes) => r1.queryId = r2.queryId

(* C34: updateArrayLock preserves the write-lock exclusion: a query that   *)
(* holds a row of a weaker mode on an array cannot turn it into WR, CRT,   *)
(* XCL or RM while a different query holds such a lock on the array.       *)
C34_UpdateKeepsWriteLockExclusion ==
    \A k \in FrameKeys, mode \in WriteModes, ids \in LockDescIds :
        (/\ WriteLockExclusionIn(locks)
         /\ \E r \in locks : KeyOf(r) = k /\ r.lockMode \notin WriteModes
         /\ \E r \in locks : /\ r.arrayName = k.arrayName /\ r.queryId # k.queryId
                             /\ r.lockMode \in WriteModes) =>
            WriteLockExclusionIn(UpdateArrayLockOutcome(locks, CallerDesc(k, mode, ids)).locks)

(***************************************************************************)
(* Properties of readers against exclusive rows of either role.            *)
(***************************************************************************)

(* C35: no RD request is granted while a row of mode XCL, RM or RNF of a   *)
(* different query exists for the array, in the COORD or in the WORKER     *)
(* role; worker rows that outlive their coordinator's row still exclude    *)
(* the readers of other queries.                                           *)
C35_ReadersExcludedByEitherRole ==
    \A k \in LockKeys, ids \in LockDescIds, c \in ErrorCheckers :
        (\E r \in locks : /\ r.arrayName = k.arrayName /\ r.queryId # k.queryId
                          /\ r.lockMode \in {XCL, RM, RNF}) =>
            LockArrayOutcome(locks, CallerDesc(k, RD, ids), c).result # "true"

(***************************************************************************)
(* Properties of the refusals and grants of workers, and of isLocked.      *)
(***************************************************************************)
MatchingCoordModes(mode) ==
    IF mode = WR THEN {WR, CRT} ELSE {mode}

(* C36: a worker's WR, RNF or first XCL request for an array and query     *)
(* whose coordinator holds no matching row makes lockArray return false at *)
(* once: no row is inserted, no LockBusy is raised, the errorChecker has   *)
(* no say, and isLocked stays false.                                       *)
C36_WorkerWithoutCoordinatorRowIsRefused ==
    \A k \in WorkerKeySet, mode \in {WR, RNF, XCL}, ids \in LockDescIds :
        (~HasKey(locks, k) /\ CoordRowsOf(k, MatchingCoordModes(mode)) = {}) =>
            \A c \in ErrorCheckers :
                LET out == LockArrayOutcome(locks, DescWith(k, mode, ids, FALSE), c)
                IN  /\ out.result = "false"
                    /\ out.locks = locks
                    /\ ~out.desc.isLocked

(* C37: after a worker's lockArray returned true, the lock mode of the     *)
(* worker's row equals the lock mode of its LockDesc.                      *)
C37_WorkerRowHasRequestedMode ==
    \A k \in WorkerKeySet, mode \in {WR, XCL}, ids \in LockDescIds, l \in BOOLEAN :
        LET out == LockArrayOutcome(locks, DescWith(k, mode, ids, l), "none")
        IN  out.result = "true" =>
                \E r \in out.locks : KeyOf(r) = k /\ r.lockMode = out.desc.lockMode

(* C38: isLocked of a LockDesc is true only while a row with its key is in *)
(* the lock table.                                                         *)
C38_IsLockedOnlyWhileRowExists ==
    \A k \in LockKeys : isLocked[k] => HasKey(locks, k)

(***************************************************************************)
(* Properties of the progress of a coordinator that retries when busy.     *)
(***************************************************************************)
RequesterGranted == contend.pc[Requester] \in {"holding", "done"}
OthersHaveLeft == \A q \in OtherQueries : contend.pc[q] = "done"

(* C40 as stated: under fair scheduling, with every granted lock released  *)
(* in the end and finitely many queries, a coordinator that calls          *)
(* lockArray again after every LockBusy is eventually granted, whatever    *)
(* its mode.                                                               *)
C40_NoStarvation == <>RequesterGranted

(* C40: a coordinator that calls lockArray again after every LockBusy is   *)
(* eventually granted, whatever its mode, if the other queries contending  *)
(* for the array release their locks and in the end stop requesting it.    *)
C40_GrantedOnceOthersLeave == (<>[]OthersHaveLeft) => <>RequesterGranted

\* The requester of XCL was busy at least once and holds the lock after the others left.
C40_Witness ==
    /\ contend.mode = XCL
    /\ contend.wasBusy
    /\ contend.pc[Requester] = "holding"
    /\ OthersHaveLeft

====
